---------------------------- MODULE Spec2Model ----------------------------
(***************************************************************************)
(* A model of package cast's FAST encoding (fastEncoding.Convert): the     *)
(* field resolver (typeFields), the arena (MiddleValueList), the encoder   *)
(* planner (typeEncoder / newTypeEncoder) and the materializer             *)
(* (fromMiddleValue and its helpers).                                      *)
(*                                                                         *)
(* Go values are modelled as trees: a value is a record that carries its   *)
(* type name t; a pointer or an interface is nil or holds its element.     *)
(* A Go string is a TLA+ string, every scalar payload is written as a      *)
(* string ("0", "1", "a").  Indexes (field indexes, arena indexes) are     *)
(* 0-based as in the source; At/SetAt translate to 1-based sequences.      *)
(***************************************************************************)
EXTENDS Integers, Sequences, FiniteSets, TLC

(* ------------------------------ bounds --------------------------------- *)
\* the longest slice and the largest map among the generated source values
MaxLen == 2
\* the longest pointer chain (number of nodes) of a self-referential value
MaxChain == 3

(* ------------------------- the type universe --------------------------- *)
\* reflect.StructField: Name, Type, Tag.Get("json") (the comma-separated
\* parts of the tag, <<>> when there is none), Anonymous, IsExported()
SF(name, typ, tag, anon, exported) ==
  [name |-> name, typ |-> typ, tag |-> tag, anon |-> anon, exported |-> exported]

\* an exported, named, untagged field
F(name, typ) == SF(name, typ, <<>>, FALSE, TRUE)
\* an exported field with a json tag
FT(name, typ, tag) == SF(name, typ, tag, FALSE, TRUE)
\* an embedded field of an exported type
EMB(name, typ) == SF(name, typ, <<>>, TRUE, TRUE)

Scalar(kind, name) == [kind |-> kind, name |-> name]
Struct(name, fields) == [kind |-> "struct", name |-> name, fields |-> fields]

\* the pointer types *T of the universe, each with its T
PointerTo ==
     "*int" :> "int" @@ "**int" :> "*int" @@ "***int" :> "**int"
  @@ "*string" :> "string" @@ "*bool" :> "bool" @@ "*float64" :> "float64"
  @@ "*any" :> "any" @@ "**any" :> "*any" @@ "*[]int" :> "[]int" @@ "*[]any" :> "[]any"
  @@ "*[2]int" :> "[2]int" @@ "*[1]int" :> "[1]int"
  @@ "*map[string]int" :> "map[string]int" @@ "*map[int]int" :> "map[int]int"
  @@ "*map[string]any" :> "map[string]any"
  @@ "*Person" :> "Person" @@ "*City" :> "City" @@ "*PersonS" :> "PersonS"
  @@ "*Empty" :> "Empty" @@ "*Tagged" :> "Tagged" @@ "*Plain" :> "Plain"
  @@ "*HP" :> "HP" @@ "*HS" :> "HS" @@ "*HA" :> "HA" @@ "*HM" :> "HM"
  @@ "*HI" :> "HI" @@ "*HF" :> "HF" @@ "*Node" :> "Node"
  @@ "*EA" :> "EA" @@ "*Amb" :> "Amb" @@ "*TagWin" :> "TagWin"
  @@ "*TwoTag" :> "TwoTag" @@ "*Three" :> "Three" @@ "*Shadow" :> "Shadow"
  @@ "*Deep" :> "Deep" @@ "*Dia" :> "Dia" @@ "*Over" :> "Over" @@ "*PE" :> "PE"
  @@ "*inner" :> "inner" @@ "*UE" :> "UE" @@ "*Tweet" :> "Tweet"

\* reflect.Type of every type that is not a pointer: Kind(), Name() ("" for
\* an unnamed type), Elem(), Key(), Len(), Field(i)
BaseTypes ==
     "int"    :> Scalar("int", "int")
  @@ "string" :> Scalar("string", "string")
  @@ "bool"   :> Scalar("bool", "bool")
  @@ "uint8"  :> Scalar("uint8", "uint8")
  @@ "MyInt"  :> Scalar("int", "MyInt")
  @@ "float64" :> Scalar("float64", "float64")
  @@ "func()" :> [kind |-> "func", name |-> ""]
  @@ "any"    :> [kind |-> "iface", name |-> ""]
  @@ "[]int"  :> [kind |-> "slice", name |-> "", elem |-> "int"]
  @@ "[]any"  :> [kind |-> "slice", name |-> "", elem |-> "any"]
  @@ "[]*int" :> [kind |-> "slice", name |-> "", elem |-> "*int"]
  @@ "[2]int" :> [kind |-> "array", name |-> "", elem |-> "int", len |-> 2]
  @@ "[1]int" :> [kind |-> "array", name |-> "", elem |-> "int", len |-> 1]
  @@ "map[string]int" :> [kind |-> "map", name |-> "", key |-> "string", elem |-> "int"]
  @@ "map[string]any" :> [kind |-> "map", name |-> "", key |-> "string", elem |-> "any"]
  @@ "map[int]int"    :> [kind |-> "map", name |-> "", key |-> "int", elem |-> "int"]
  \* plain records
  @@ "Person"  :> Struct("Person", <<F("Name", "string"), F("Age", "int")>>)
  @@ "City"    :> Struct("City", <<F("Name", "string"), F("City", "string")>>)
  @@ "PersonS" :> Struct("PersonS", <<F("Name", "string"), F("Age", "string")>>)
  @@ "Empty"   :> Struct("Empty", <<>>)
  \* tags: rename, rename with option, exclude, invalid name, unexported
  @@ "Tagged"  :> Struct("Tagged",
        << FT("ID", "int", <<"id">>),
           FT("Name", "string", <<"name", "omitempty">>),
           FT("Skip", "int", <<"-">>),
           FT("Bad", "int", <<"a\"b">>),
           SF("priv", "int", <<>>, FALSE, FALSE) >>)
  @@ "Plain"   :> Struct("Plain", <<F("ID", "int"), F("id", "int"), F("name", "string")>>)
  \* holders of one composite field each
  @@ "HP" :> Struct("HP", <<F("P", "*int")>>)
  @@ "HS" :> Struct("HS", <<F("S", "[]int")>>)
  @@ "HA" :> Struct("HA", <<F("S", "[2]int")>>)
  @@ "HM" :> Struct("HM", <<F("M", "map[string]int")>>)
  @@ "HI" :> Struct("HI", <<F("I", "any")>>)
  @@ "HF" :> Struct("HF", <<F("Fn", "func()"), F("N", "int")>>)
  \* a self-referential type
  @@ "Node"  :> Struct("Node", <<F("Val", "int"), F("Next", "*Node")>>)
  \* embedding
  @@ "EA" :> Struct("EA", <<F("X", "int")>>)
  @@ "EB" :> Struct("EB", <<F("X", "int")>>)
  @@ "EC" :> Struct("EC", <<FT("V", "int", <<"X">>)>>)
  @@ "ED" :> Struct("ED", <<FT("W", "int", <<"X">>)>>)
  @@ "Amb"    :> Struct("Amb", <<EMB("EA", "EA"), EMB("EB", "EB"), F("K", "int")>>)
  @@ "TagWin" :> Struct("TagWin", <<EMB("EA", "EA"), EMB("EC", "EC")>>)
  @@ "TwoTag" :> Struct("TwoTag", <<EMB("EC", "EC"), EMB("ED", "ED")>>)
  @@ "Three"  :> Struct("Three", <<EMB("EA", "EA"), EMB("EB", "EB"), EMB("EC", "EC")>>)
  @@ "Shadow" :> Struct("Shadow", <<EMB("EA", "EA"), F("X", "int")>>)
  @@ "Deep"   :> Struct("Deep", <<EMB("Amb", "Amb"), EMB("EC", "EC")>>)
  @@ "B1"  :> Struct("B1", <<EMB("EA", "EA")>>)
  @@ "B2"  :> Struct("B2", <<EMB("EA", "EA")>>)
  @@ "Dia" :> Struct("Dia", <<EMB("B1", "B1"), EMB("B2", "B2")>>)
  \* a field above two tagged fields of its name
  @@ "Over" :> Struct("Over", <<EMB("TwoTag", "TwoTag"), F("X", "int")>>)
  @@ "PE"  :> Struct("PE", <<EMB("EA", "*EA"), F("Name", "string")>>)
  \* an embedded pointer to an unexported struct type
  @@ "inner"  :> Struct("inner", <<F("X", "int")>>)
  @@ "UE" :> Struct("UE", <<SF("inner", "*inner", <<>>, TRUE, FALSE), F("Name", "string")>>)
  \* every field with a json name tag, as the fields of TwitterStruct
  @@ "Tweet" :> Struct("Tweet",
        << FT("Text", "string", <<"text">>),
           FT("Indices", "[]int", <<"indices">>),
           FT("Geo", "any", <<"geo">>) >>)

\* reflect.Type of every type of the universe
Types ==
  BaseTypes @@ [p \in DOMAIN PointerTo |-> [kind |-> "ptr", name |-> "", elem |-> PointerTo[p]]]

TypeNames == DOMAIN Types

Kind(t) == Types[t].kind

(* --------------------------- field resolver ---------------------------- *)
\* the Go strings the model compares with <, in byte order
NameOrder ==
  << "", "-", "Age", "Amb", "B1", "B2", "Bad", "City", "Deep", "Dia",
     "Dst", "EA", "EB", "EC", "ED", "Empty", "Fn", "Geo", "HA", "HF", "HI",
     "HM", "HP", "HS", "I", "ID", "Indices", "K", "L", "M", "N", "Name",
     "Next", "Node", "P", "PE", "Person", "PersonS", "Plain", "Q", "R", "S",
     "Shadow", "Skip", "Src", "TagWin", "Tagged", "Text", "Three", "Tweet",
     "TwoTag", "UE", "V", "Val", "W", "X", "a", "a\"b", "b", "c", "geo",
     "id", "indices", "inner", "name", "priv", "text" >>

NameRank(s) == CHOOSE i \in 1..Len(NameOrder) : NameOrder[i] = s

\* s < t on Go strings
StringLess(s, t) == NameRank(s) < NameRank(t)

\* the names isValidTag rejects for holding a character that is neither a
\* letter, a digit nor one of the allowed punctuation characters
ReservedCharNames == {"a\"b"}

NumField(t) == Len(Types[t].fields)
StructField(t, i) == Types[t].fields[i + 1]

parseTag(tag) == IF tag = <<>> THEN "" ELSE tag[1]

isValidTag(s) == s # "" /\ s \notin ReservedCharNames

field(name, tag, index, typ) == [name |-> name, tag |-> tag, index |-> index, typ |-> typ]

RECURSIVE idxLess(_, _, _)
idxLess(x, y, k) ==
  IF k > Len(x) THEN Len(x) < Len(y)
  ELSE IF k > Len(y) THEN FALSE
  ELSE IF x[k] # y[k] THEN x[k] < y[k]
  ELSE idxLess(x, y, k + 1)

byIndexLess(a, b) == idxLess(a.index, b.index, 1)

\* name, then tagged first, then depth, then index sequence
nameTagDepthLess(a, b) ==
  IF a.name # b.name THEN StringLess(a.name, b.name)
  ELSE IF a.tag # b.tag THEN a.tag
  ELSE IF Len(a.index) # Len(b.index) THEN Len(a.index) < Len(b.index)
  ELSE byIndexLess(a, b)

\* the order of the sort.Slice call of typeFields: name, then depth, then
\* tagged first, then index sequence
nameDepthTagLess(a, b) ==
  IF a.name # b.name THEN StringLess(a.name, b.name)
  ELSE IF Len(a.index) # Len(b.index) THEN Len(a.index) < Len(b.index)
  ELSE IF a.tag # b.tag THEN a.tag
  ELSE byIndexLess(a, b)

\* s as sort.Sort(byIndex(s)) leaves it when byIndex holds, and as the
\* sort.Slice by name, depth and tag leaves it otherwise
SortBy(s, byIndex) ==
  LET n == Len(s)
      Less(x, y) == IF byIndex THEN byIndexLess(x, y) ELSE nameDepthTagLess(x, y)
      rank(i) == Cardinality({j \in 1..n : \/ Less(s[j], s[i])
                                            \/ (~Less(s[i], s[j]) /\ j < i)}) + 1
  IN [k \in 1..n |-> s[CHOOSE i \in 1..n : rank(i) = k]]

NoCount == [t \in TypeNames |-> 0]

\* the loop over the fields of f.typ (the body of "for i := 0; i <
\* f.typ.NumField(); i++"); cnt is count[f.typ]
\* the record of a field that is no embedded struct (lines 671-683): twice
\* when its struct type occurs more than once at this level
recordField(st, cnt, found) ==
  [st EXCEPT !.fields = @ \o (IF cnt > 1 THEN <<found, found>> ELSE <<found>>)]

\* the record of an embedded struct to explore at the next level (lines
\* 686-690)
queueStruct(st, index, ft, fty) ==
  [st EXCEPT !.nextCount[ft] = @ + 1,
             !.next = IF st.nextCount[ft] = 0
                      THEN @ \o <<field(fty.name, FALSE, index, ft)>> ELSE @]

\* tags are ignored
tagNameIgnored(name) == ""

\* the name the tag gives, "" if none or an invalid one (lines 652-655)
tagName(name) == IF isValidTag(name) THEN name ELSE ""

\* the body of the loop over the fields of f.typ, lines 634-691: sf is the
\* field, index its index sequence, t0k the kind of its type after a
\* pointer was followed, name0 the name of its tag, ft its type after an
\* unnamed pointer was followed and fty the declaration of ft
scanField(st, cnt, index, sf, t0k, name0, ft, fty) ==
  IF \/ sf.anon /\ ~sf.exported /\ t0k # "struct"
     \/ ~sf.anon /\ ~sf.exported
     \/ sf.tag = <<"-">>
  THEN st
  ELSE IF name0 # "" \/ ~sf.anon \/ fty.kind # "struct"
  THEN recordField(st, cnt,
         field(IF name0 = "" THEN sf.name ELSE name0, name0 # "", index, ft))
  ELSE queueStruct(st, index, ft, fty)

\* t, or what it points to if its declaration ty is a pointer type (an
\* unnamed one when unnamedOnly)
elemOfPtr(t, ty, unnamedOnly) ==
  IF ty.kind = "ptr" /\ (unnamedOnly => ty.name = "") THEN ty.elem ELSE t

\* sf with the types lines 637-642 and 657-661 derive from its own
scanTyped(st, cnt, index, sf, t0, ft) ==
  scanField(st, cnt, index, sf, Kind(t0), tagName(parseTag(sf.tag)), ft, Types[ft])

scanStructField(st, cnt, index, sf, ty) ==
  scanTyped(st, cnt, index, sf, elemOfPtr(sf.typ, ty, FALSE), elemOfPtr(sf.typ, ty, TRUE))

scanOne(st, cnt, index, sf) == scanStructField(st, cnt, index, sf, Types[sf.typ])

\* the loop "for i := 0; i < f.typ.NumField(); i++"
RECURSIVE scanFields(_, _, _, _)
scanFields(f, i, cnt, st) ==
  IF i >= NumField(f.typ) THEN st
  ELSE scanFields(f, i + 1, cnt, scanOne(st, cnt, f.index \o <<i>>, StructField(f.typ, i)))

\* the loop "for _, f := range current"
RECURSIVE scanLevel(_, _, _, _)
scanLevel(current, k, count, st) ==
  IF k > Len(current) THEN st
  ELSE scanLevel(current, k + 1, count,
         IF current[k].typ \in st.visited THEN st
         ELSE scanFields(current[k], 0, count[current[k].typ],
                         [st EXCEPT !.visited = @ \cup {current[k].typ}]))

\* the loop "for len(next) > 0": the fields found, level by level
RECURSIVE explore(_, _, _, _)
RECURSIVE exploreNext(_)
exploreNext(st) == explore(st.next, st.nextCount, st.visited, st.fields)

explore(next, nextCount, visited, fields) ==
  IF next = <<>> THEN fields
  ELSE exploreNext(scanLevel(next, 1, nextCount,
                     [fields |-> fields, next |-> <<>>, nextCount |-> NoCount,
                      visited |-> visited]))

\* the first field wins, whatever follows it
dominantFieldFirst(fields) == [ok |-> TRUE, field |-> fields[1]]

dominantField(fields) ==
  IF Len(fields) > 1 /\ Len(fields[1].index) = Len(fields[2].index)
                     /\ fields[1].tag = fields[2].tag
  THEN [ok |-> FALSE]
  ELSE [ok |-> TRUE, field |-> fields[1]]

\* the loop "for advance, i := 0, 0; i < len(fields); i += advance"
RECURSIVE dominate(_, _)
dominate(fields, i) ==
  IF i > Len(fields) THEN <<>>
  ELSE
    LET same == {a \in 1..(Len(fields) - i + 1) :
                   \A b \in 1..a : fields[i + b - 1].name = fields[i].name}
        advance == CHOOSE a \in same : \A b \in same : b <= a
        dom == dominantField(SubSeq(fields, i, i + advance - 1))
    IN (IF advance = 1 THEN <<fields[i]>>
        ELSE IF dom.ok THEN <<dom.field>> ELSE <<>>)
       \o dominate(fields, i + advance)

RECURSIVE typeByIndex(_, _)
typeByIndex(t, index) ==
  IF index = <<>> THEN t
  ELSE LET s == IF Kind(t) = "ptr" THEN Types[t].elem ELSE t
       IN typeByIndex(StructField(s, Head(index)).typ, Tail(index))

\* lines 749-752: each field with enc, the type whose encoder typeFields
\* stores in field.encoder
withEncoders(t, sorted) ==
  [i \in 1..Len(sorted) |->
     [name |-> sorted[i].name, tag |-> sorted[i].tag, index |-> sorted[i].index,
      typ |-> sorted[i].typ, enc |-> typeByIndex(t, sorted[i].index)]]

\* lines 754-758: the structFields of list, byExactName the position in
\* list of the field &fields[i] each name maps to
structFields(list) ==
  [list |-> list,
   byExactName |-> [n \in {list[i].name : i \in 1..Len(list)} |->
      CHOOSE i \in 1..Len(list) :
         list[i].name = n /\ \A j \in 1..Len(list) : list[j].name = n => j <= i]]

typeFields(t) ==
  structFields(withEncoders(t,
    SortBy(dominate(SortBy(explore(<<field("", FALSE, <<>>, t)>>, NoCount, {}, <<>>),
                           FALSE), 1),
           TRUE)))

StructTypes == {t \in TypeNames : Kind(t) = "struct"}

\* typeFields is a function of the type alone: the table of its results
FieldPlan == [t \in StructTypes |-> typeFields(t)]


(* ------------------------------- values -------------------------------- *)
\* the zero reflect.Value
Invalid == [t |-> "invalid"]

KindOf(v) == IF v.t = "invalid" THEN "invalid" ELSE Kind(v.t)

ScalarKinds == {"bool", "int", "uint8", "float64", "string"}
NilableKinds == {"ptr", "map", "slice", "iface", "func"}

ScalarV(t, x) == [t |-> t, v |-> x]
NilPtr(t) == [t |-> t, nil |-> TRUE]
PtrV(t, e) == [t |-> t, nil |-> FALSE, elem |-> e]
SliceV(t, isNil, es) == [t |-> t, nil |-> isNil, elems |-> es]
ArrayV(t, es) == [t |-> t, elems |-> es]
MapV(t, isNil, ents) == [t |-> t, nil |-> isNil, ents |-> ents]
StructV(t, fs) == [t |-> t, fields |-> fs]

\* reflect.Zero(t)
RECURSIVE Zero(_)
Zero(t) ==
  LET k == Kind(t) IN
  CASE k \in {"int", "uint8", "float64"} -> ScalarV(t, "0")
    [] k = "string" -> ScalarV(t, "")
    [] k = "bool" -> ScalarV(t, "false")
    [] k \in {"ptr", "iface", "func"} -> NilPtr(t)
    [] k = "slice" -> SliceV(t, TRUE, <<>>)
    [] k = "map" -> MapV(t, TRUE, <<>>)
    [] k = "array" -> ArrayV(t, [i \in 1..Types[t].len |-> Zero(Types[t].elem)])
    [] k = "struct" -> StructV(t, [i \in 1..NumField(t) |-> Zero(Types[t].fields[i].typ)])

\* v.Len() of a Go string value of the model (the payloads are "" or one byte)
StringLen(s) == IF s = "" THEN 0 ELSE 1

(* -------------------------------- arena -------------------------------- *)
NilValueType == 0
ValueValueType == 1
SliceValueType == 2
MapValueType == 3

MiddleValue(Type, Name, Value, Length, First) ==
  [Type |-> Type, Name |-> Name, Value |-> Value, Length |-> Length, First |-> First]

\* MiddleValue{}
ZeroMV == MiddleValue(NilValueType, "", Invalid, 0, 0)

\* l.List[i] and l.List[i] = x, i counted from 0
At(list, i) == list[i + 1]
SetAt(list, i, x) == [list EXCEPT ![i + 1] = x]

\* the children l.List[p.First : p.First+p.Length] of a node
Children(list, p) == [i \in 1..p.Length |-> At(list, p.First + i - 1)]

\* one append more than the node has children
ReserveOneMore(list, n) == list \o [i \in 1..(n + 1) |-> ZeroMV]

\* the n appends of MiddleValue{} that reserve a node's children
Reserve(list, n) == list \o [i \in 1..n |-> ZeroMV]

(* ------------------------------- encoder ------------------------------- *)
validMapKey(key) ==
  IF KindOf(key) # "string" THEN [s |-> "", valid |-> FALSE]
  ELSE [s |-> key.v, valid |-> TRUE]

\* the walk "for _, i := range f.index" of the struct encoder
RECURSIVE fieldByIndex(_, _)
fieldByIndex(fv, index) ==
  IF index = <<>> THEN [breakNil |-> FALSE, fv |-> fv]
  ELSE IF KindOf(fv) = "ptr"
       THEN IF fv.nil THEN [breakNil |-> TRUE]
            ELSE fieldByIndex(fv.elem.fields[Head(index) + 1], Tail(index))
       ELSE fieldByIndex(fv.fields[Head(index) + 1], Tail(index))

\* The encoder newTypeEncoder builds for v's type, run on node current of
\* the arena.  st.List is the arena; st.dyn lists the dynamic types the
\* interface encoder asks typeEncoder for while it runs (reflectValue);
\* st.seen is the set of types whose encoder has been invoked.
RECURSIVE encode(_, _, _)
RECURSIVE encodeKind(_, _, _, _)
RECURSIVE encodeElems(_, _, _, _)
RECURSIVE encodeEntries(_, _, _, _, _)
RECURSIVE encodeEntry(_, _, _, _, _, _)
RECURSIVE encodeFields(_, _, _, _, _)
RECURSIVE encodeField(_, _, _, _, _, _, _)

\* node p becomes a List or a Keyed node of n children, reserved at the
\* end of the arena
composite(list, current, p, type, n) ==
  IF n = 0 THEN SetAt(list, current, [p EXCEPT !.Type = type])
  ELSE Reserve(SetAt(list, current,
                     [p EXCEPT !.Type = type, !.Length = n, !.First = Len(list)]), n)

encodeComposite(st, current, type, n) ==
  [st EXCEPT !.List = composite(@, current, At(@, current), type, n)]

\* a Null node that drops the name
encodeNilUnnamed(st, current, name) ==
  [st EXCEPT !.List = SetAt(@, current, MiddleValue(NilValueType, "", Invalid, 0, 0))]

\* "p := &l.List[current]; p.Type = NilValueType"
encodeNil(st, current, name) ==
  [st EXCEPT !.List = SetAt(@, current, MiddleValue(NilValueType, name, Invalid, 0, 0))]

\* "l.List[at].Name = name"
setName(st, at, name) ==
  [st EXCEPT !.List = SetAt(@, at, [At(@, at) EXCEPT !.Name = name])]

encode(st, current, v) ==
  encodeKind([st EXCEPT !.seen = @ \cup {v.t}], current, v, KindOf(v))

\* the encoder of kind k
encodeKind(st, current, v, k) ==
  CASE k \in {"iface", "ptr"} ->
         IF v.nil THEN encodeNil(st, current, "")
         ELSE encode(IF k = "ptr" THEN st ELSE [st EXCEPT !.dyn = Append(@, v.elem.t)],
                     current, v.elem)
    [] k \in ScalarKinds ->
         [st EXCEPT !.List = SetAt(@, current, MiddleValue(ValueValueType, "", v, 0, 0))]
    [] k \in {"array", "slice"} ->
         encodeElems(encodeComposite(st, current, SliceValueType, Len(v.elems)),
                     Len(st.List), v.elems, 0)
    [] k = "map" ->
         encodeEntries(encodeComposite(st, current, MapValueType, Len(v.ents)),
                       Len(st.List), v.ents, 1, 0)
    [] k = "struct" -> encodeFields(st, current, FieldPlan[v.t].list, v, -1)
    [] OTHER -> st

\* "for i := 0; i < n; i++ { toMiddleValue(l, end+i, v.Index(i)) }"
encodeElems(st, end, elems, i) ==
  IF i >= Len(elems) THEN st
  ELSE encodeElems(encode(st, end + i, elems[i + 1]), end, elems, i + 1)

\* "for iter.Next()": k is the position in the iteration order, i the
\* number of entries encoded so far
encodeEntries(st, end, ents, k, i) ==
  IF k > Len(ents) THEN st
  ELSE encodeEntry(st, end, ents, k, i, validMapKey(ents[k].key))

\* the body of that loop for the entry with key
encodeEntry(st, end, ents, k, i, key) ==
  IF ~key.valid THEN encodeEntries(st, end, ents, k + 1, i)
  ELSE encodeEntries(setName(encode(st, end + i, ents[k].val), end + i, key.s),
                     end, ents, k + 1, i + 1)

\* the struct encoder: the node becomes Keyed (j = -1), then "for j :=
\* range fields.list"; end is the index of the first child
encodeFields(st, end, list, v, j) ==
  IF j = -1
  THEN encodeFields(encodeComposite(st, end, MapValueType, Len(list)),
                    Len(st.List), list, v, 0)
  ELSE IF j >= Len(list) THEN st
  ELSE encodeField(st, end, list, v, j, list[j + 1].name, fieldByIndex(v, list[j + 1].index))

\* the body of that loop for the field called name, w the value the walk
\* along its index reached
encodeField(st, end, list, v, j, name, w) ==
  encodeFields(IF w.breakNil THEN encodeNil(st, end + j, name)
               ELSE setName(encode(st, end + j, w.fv), end + j, name),
               end, list, v, j + 1)

\* reflectValue(l, 0, srcValue) on an arena whose List is list
reflectValue(list, srcValue) ==
  encode([List |-> list, dyn |-> <<>>, seen |-> {}], 0, srcValue)

(* ----------------------------- materializer ---------------------------- *)
\* A destination reflect.Value: the value v now at the location, whether
\* the location is addressable (flagAddr) and whether it was reached
\* through an unexported embedded field (flagRO).
Loc(v, addr, ro) == [v |-> v, addr |-> addr, ro |-> ro]

InvalidLoc == Loc(Invalid, FALSE, FALSE)

CanSet(loc) == loc.addr /\ ~loc.ro

\* the outcome of a materializer function: the value it leaves at the
\* location, whether it panicked, and the struct types it called
\* cachedTypeFields for, in call order
Outcome(v, panic, ctf) == [v |-> v, panic |-> panic, ctf |-> ctf]

\* x.assignTo(dst type) of reflect.Value.Set: identical types, or any
\* value to the empty interface
Assignable(from, to) == from = to \/ Kind(to) = "iface"

\* v.Set(x) at leaf: the value the location holds afterwards
Boxed(leaf, x) == IF KindOf(leaf.v) = "iface" THEN PtrV(leaf.v.t, x) ELSE x

\* valueInterface / arrayInterface / objectInterface: the Go value an
\* interface destination is given for node p (held in an interface: nil
\* for a Null node)
RECURSIVE valueInterface(_, _)
arrayInterface(list, ps) ==
  SliceV("[]any", FALSE, [i \in 1..Len(ps) |-> valueInterface(list, ps[i])])

\* r[p.Name] = ... for each child in turn: a later child overwrites
RECURSIVE putAll(_, _, _, _)
putAll(list, ents, pm, i) ==
  IF i > Len(pm) THEN ents
  ELSE LET key == ScalarV("string", pm[i].Name)
           e == [key |-> key, val |-> valueInterface(list, pm[i])]
           at == {k \in 1..Len(ents) : ents[k].key = key}
       IN putAll(list,
                 IF at = {} THEN Append(ents, e)
                 ELSE [ents EXCEPT ![CHOOSE k \in at : TRUE] = e],
                 pm, i + 1)

objectInterface(list, pm) == MapV("map[string]any", FALSE, putAll(list, <<>>, pm, 1))

valueInterface(list, p) ==
  CASE p.Type = NilValueType -> NilPtr("any")
    [] p.Type = ValueValueType -> PtrV("any", p.Value)
    [] p.Type = SliceValueType -> PtrV("any", arrayInterface(list, Children(list, p)))
    [] p.Type = MapValueType -> PtrV("any", objectInterface(list, Children(list, p)))

\* makeValue(v): the location it returns (leaf), the types of the pointers
\* and interfaces it went through to get there (path, outermost first), and
\* whether v.Set(reflect.New(...)) panicked on a nil pointer that cannot be
\* set
RECURSIVE makeValue(_)
makeValue(loc) ==
  LET v == loc.v
      k == KindOf(v)
      through(inner) == LET m == makeValue(inner)
                        IN [m EXCEPT !.path = <<v.t>> \o @]
  IN IF /\ k = "iface" /\ ~v.nil
        /\ KindOf(v.elem) = "ptr" /\ ~v.elem.nil /\ KindOf(v.elem.elem) = "ptr"
     THEN through(Loc(v.elem, FALSE, loc.ro))
     ELSE IF k # "ptr" THEN [leaf |-> loc, path |-> <<>>, panic |-> FALSE]
     ELSE IF v.nil
          THEN IF ~CanSet(loc) THEN [leaf |-> loc, path |-> <<>>, panic |-> TRUE]
               ELSE through(Loc(Zero(Types[v.t].elem), TRUE, loc.ro))
          ELSE through(Loc(v.elem, TRUE, loc.ro))

\* the value at the outer location once the leaf holds x
RECURSIVE rebuild(_, _)
rebuild(path, x) ==
  IF path = <<>> THEN x ELSE PtrV(Head(path), rebuild(Tail(path), x))

\* the outcome at the outer location of an outcome r at the leaf of m
Outer(m, r) == Outcome(rebuild(m.path, r.v), r.panic, r.ctf)

\* makeValue panicked, or the function after it panicked at once
Panicked(m) == Outcome(rebuild(m.path, m.leaf.v), TRUE, <<>>)

\* the outcome r, after the calls of cachedTypeFields of the outcome
\* before it
After(before, r) == [r EXCEPT !.ctf = before.ctf \o @]

\* fromSimple after m = makeValue(destValue): destValue.Set(pv)
setSimple(pv, m) ==
  IF m.panic THEN Panicked(m)
  ELSE IF /\ KindOf(m.leaf.v) # "invalid"
          /\ CanSet(m.leaf)
          /\ Assignable(pv.t, m.leaf.v.t)
       THEN Outer(m, Outcome(Boxed(m.leaf, pv), FALSE, <<>>))
       ELSE Panicked(m)

fromSimple(pv, destValue) == setSimple(pv, makeValue(destValue))

\* destValue.Len(): defined for these kinds, a panic for the others
HasLen(k) == k \in {"array", "slice", "map", "string"}
LenOf(v, k) ==
  CASE k \in {"array", "slice"} -> Len(v.elems)
    [] k = "map" -> Len(v.ents)
    [] k = "string" -> StringLen(v.v)

RECURSIVE fromMiddleValue(_, _, _)
RECURSIVE fromSliceElems(_, _, _, _, _)
RECURSIVE fromSliceElem(_, _, _, _, _, _)
RECURSIVE fromMapToMap(_, _, _, _)
RECURSIVE fromMapEntry(_, _, _, _, _)
RECURSIVE fromMapToStruct(_, _, _, _)
RECURSIVE fromMapField(_, _, _, _, _, _)
RECURSIVE fromMapFieldSet(_, _, _, _, _)
RECURSIVE setByIndex(_, _, _, _)

\* destValue.Index(i) of leaf, of kind k
IndexLoc(leaf, k, i) ==
  IF k = "string" THEN Loc(ScalarV("uint8", "0"), FALSE, leaf.ro)
  ELSE Loc(leaf.v.elems[i + 1], IF k = "slice" THEN TRUE ELSE leaf.addr, leaf.ro)

\* the destination keeps what it holds after the last child
truncateNothing(leaf, k, i) == Outcome(leaf.v, FALSE, <<>>)

\* lines 431-443 of fromSlice: the destination is longer than the node
truncate(leaf, k, i) ==
  IF k = "array"
  THEN IF CanSet(leaf)
       THEN Outcome([leaf.v EXCEPT !.elems = [j \in 1..Len(leaf.v.elems) |->
                       IF j > i THEN Zero(Types[leaf.v.t].elem) ELSE leaf.v.elems[j]]],
                    FALSE, <<>>)
       ELSE Outcome(leaf.v, TRUE, <<>>)
  ELSE IF k = "slice" /\ CanSet(leaf)
       THEN Outcome([leaf.v EXCEPT !.elems = SubSeq(@, 1, i)], FALSE, <<>>)
       ELSE Outcome(leaf.v, TRUE, <<>>)

\* the loop "for ; i < n; i++" of fromSlice and what follows it; leaf is
\* the destination after makeValue (and after MakeSlice for a slice), k
\* its kind
fromSliceElems(list, p, leaf, k, i) ==
  IF ~HasLen(k) THEN Outcome(leaf.v, TRUE, <<>>)
  ELSE IF i < p.Length
  THEN IF i >= LenOf(leaf.v, k) THEN fromSliceElems(list, p, leaf, k, i + 1)
       ELSE IF k = "map" THEN Outcome(leaf.v, TRUE, <<>>)
       ELSE fromSliceElem(list, p, leaf, k, i,
              fromMiddleValue(list, At(list, p.First + i), IndexLoc(leaf, k, i)))
  ELSE IF i < LenOf(leaf.v, k) THEN truncate(leaf, k, i)
  ELSE Outcome(leaf.v, FALSE, <<>>)

\* the rest of that loop once element i has the outcome r
fromSliceElem(list, p, leaf, k, i, r) ==
  LET leaf1 == IF k = "string" THEN leaf ELSE [leaf EXCEPT !.v.elems[i + 1] = r.v]
  IN IF r.panic THEN Outcome(leaf1.v, TRUE, r.ctf)
     ELSE After(r, fromSliceElems(list, p, leaf1, k, i + 1))

\* fromSlice after m = makeValue(destValue), data the children of p
setSlice(list, p, m, data) ==
  LET leaf == m.leaf
      k == KindOf(m.leaf.v)
  IN IF m.panic THEN Panicked(m)
     ELSE IF k = "iface"
     THEN IF CanSet(leaf)
          THEN Outer(m, Outcome(Boxed(leaf, arrayInterface(list, data)), FALSE, <<>>))
          ELSE Panicked(m)
     ELSE IF k = "slice" /\ ~CanSet(leaf) THEN Panicked(m)
     ELSE Outer(m, fromSliceElems(list, p,
             IF k = "slice"
             THEN [leaf EXCEPT !.v = SliceV(leaf.v.t, FALSE,
                     [j \in 1..Len(data) |-> Zero(Types[leaf.v.t].elem)])]
             ELSE leaf, k, 0))

fromSlice(list, p, destValue) == setSlice(list, p, makeValue(destValue), Children(list, p))

\* destValue.SetMapIndex(key, elem)
SetMapIndex(ents, key, elem) ==
  LET at == {k \in 1..Len(ents) : ents[k].key = key}
      e == [key |-> key, val |-> elem]
  IN IF at = {} THEN Append(ents, e) ELSE [ents EXCEPT ![CHOOSE k \in at : TRUE] = e]

\* the key fromMapToMap stores child e of node p under
MapKeyOf(p, e) == p.Name

\* v is the map value; i the child reached
fromMapToMap(list, p, v, i) ==
  IF i >= p.Length THEN Outcome(v, FALSE, <<>>)
  ELSE fromMapEntry(list, p, v, i,
         fromMiddleValue(list, At(list, p.First + i),
                         Loc(Zero(Types[v.t].elem), TRUE, FALSE)))

\* the rest of that loop once the new element for child i has the outcome r
fromMapEntry(list, p, v, i, r) ==
  IF r.panic THEN Outcome(v, TRUE, r.ctf)
  ELSE After(r, fromMapToMap(list, p,
         [v EXCEPT !.ents = SetMapIndex(@, ScalarV("string",
                                             MapKeyOf(p, At(list, p.First + i))), r.v)],
         i + 1))

\* x, with panic and ctf of the outcome r
Keep(x, r) == Outcome(x, r.panic, r.ctf)

\* the walk "for _, j := range f.index" of fromMapToStruct followed by
\* fromMiddleValue(l, e, subValue): the outcome at location sub
setByIndex(list, e, sub, index) ==
  LET j == Head(index)
      \* subValue = subValue.Field(j), s a struct location
      field0(s) == Loc(s.v.fields[j + 1], s.addr, ~StructField(s.v.t, j).exported)
      set(s, r) == Keep([s.v EXCEPT !.fields[j + 1] = r.v], r)
      atField(s) == set(s, setByIndex(list, e, field0(s), Tail(index)))
      under(r) == Keep(PtrV(sub.v.t, r.v), r)
  IN IF index = <<>> THEN fromMiddleValue(list, e, sub)
     ELSE IF KindOf(sub.v) # "ptr" THEN atField(sub)
     ELSE IF sub.v.nil /\ ~CanSet(sub)
     THEN Keep(sub.v, fromMiddleValue(list, e, InvalidLoc))
     ELSE under(atField(Loc(IF sub.v.nil THEN Zero(Types[sub.v.t].elem) ELSE sub.v.elem,
                            TRUE, sub.ro)))

\* the field of the destination's plan that child e is assigned to
FieldFor(fields, e) ==
  IF e.Name \in DOMAIN fields.byExactName
  THEN [ok |-> TRUE, f |-> fields.list[fields.byExactName[e.Name]]]
  ELSE [ok |-> FALSE]

\* s is the struct location; i the child reached
fromMapToStruct(list, p, s, i) ==
  IF i >= p.Length THEN Outcome(s.v, FALSE, <<>>)
  ELSE fromMapField(list, p, s, i, At(list, p.First + i), FieldPlan[s.v.t])

\* the body of that loop for child e, fields the plan of the struct
fromMapField(list, p, s, i, e, fields) ==
  IF e.Name \notin DOMAIN fields.byExactName THEN fromMapToStruct(list, p, s, i + 1)
  ELSE fromMapFieldSet(list, p, s, i, setByIndex(list, e, s, FieldFor(fields, e).f.index))

\* the rest of that loop once the field of child i has the outcome r
fromMapFieldSet(list, p, s, i, r) ==
  IF r.panic THEN r
  ELSE After(r, fromMapToStruct(list, p, [s EXCEPT !.v = r.v], i + 1))

\* fromMap after m = makeValue(destValue)
setMap(list, p, m, k) ==
  IF m.panic \/ k = "invalid" THEN Panicked(m)
  ELSE IF k = "iface"
  THEN IF CanSet(m.leaf)
       THEN Outer(m, Outcome(Boxed(m.leaf, objectInterface(list, Children(list, p))),
                             FALSE, <<>>))
       ELSE Panicked(m)
  ELSE IF k = "map"
  THEN IF Kind(Types[m.leaf.v.t].key) # "string" THEN Outer(m, Outcome(m.leaf.v, FALSE, <<>>))
       ELSE IF m.leaf.v.nil /\ ~CanSet(m.leaf) THEN Panicked(m)
       ELSE Outer(m, fromMapToMap(list, p, [m.leaf.v EXCEPT !.nil = FALSE], 0))
  ELSE IF k = "struct"
  THEN Outer(m, After(Outcome(m.leaf.v, FALSE, <<m.leaf.v.t>>),
                      fromMapToStruct(list, p, m.leaf, 0)))
  ELSE Outer(m, Outcome(m.leaf.v, FALSE, <<>>))

fromMapKind(list, p, m) == setMap(list, p, m, KindOf(m.leaf.v))

fromMap(list, p, destValue) == fromMapKind(list, p, makeValue(destValue))

fromMiddleValue(list, p, destValue) ==
  CASE p.Type = NilValueType -> Outcome(destValue.v, FALSE, <<>>)
    [] p.Type = ValueValueType -> fromSimple(p.Value, destValue)
    [] p.Type = SliceValueType -> fromSlice(list, p, destValue)
    [] p.Type = MapValueType -> fromMap(list, p, destValue)

(* ------------------------------ JSON path ------------------------------ *)
\* json.Marshal and json.Unmarshal as jsonEncoding.Convert and the test use
\* them, on the types of the universe whose tags carry no option.  A JSON
\* text is the tree of its values: null, a bool, a number, a string, an
\* array or an object (its members in the order written).
JNull == [j |-> "null"]

RECURSIVE Marshal(_)
\* the members of the struct v: one for each field of its plan that no nil
\* embedded pointer hides
MarshalFields(v, list) ==
  [i \in 1..Len(list) |-> [key |-> list[i].name,
                           val |-> Marshal(fieldByIndex(v, list[i].index).fv)]]

\* b, err := json.Marshal(v)
Marshal(v) ==
  CASE KindOf(v) = "invalid" -> JNull
    [] KindOf(v) \in {"ptr", "iface"} -> IF v.nil THEN JNull ELSE Marshal(v.elem)
    [] KindOf(v) = "bool" -> [j |-> "bool", v |-> v.v]
    [] KindOf(v) \in {"int", "uint8", "float64"} -> [j |-> "num", v |-> v.v]
    [] KindOf(v) = "string" -> [j |-> "str", v |-> v.v]
    [] KindOf(v) \in {"slice", "array"} ->
         IF KindOf(v) = "slice" /\ v.nil THEN JNull
         ELSE [j |-> "arr", es |-> [i \in 1..Len(v.elems) |-> Marshal(v.elems[i])]]
    [] KindOf(v) = "map" ->
         IF v.nil THEN JNull
         ELSE [j |-> "obj", ents |-> [i \in 1..Len(v.ents) |->
                 [key |-> v.ents[i].key.v, val |-> Marshal(v.ents[i].val)]]]
    [] KindOf(v) = "struct" ->
         [j |-> "obj",
          ents |-> MarshalFields(v, SelectSeq(FieldPlan[v.t].list,
                     LAMBDA f : ~fieldByIndex(v, f.index).breakNil))]

\* the value an interface{} destination is given for the JSON value j:
\* nil, bool, float64, string, []interface{} or map[string]interface{}
RECURSIVE Dynamic(_)
Dynamic(j) ==
  CASE j.j = "null" -> NilPtr("any")
    [] j.j = "bool" -> PtrV("any", ScalarV("bool", j.v))
    [] j.j = "num" -> PtrV("any", ScalarV("float64", j.v))
    [] j.j = "str" -> PtrV("any", ScalarV("string", j.v))
    [] j.j = "arr" ->
         PtrV("any", SliceV("[]any", FALSE, [i \in 1..Len(j.es) |-> Dynamic(j.es[i])]))
    [] j.j = "obj" ->
         PtrV("any", MapV("map[string]any", FALSE,
                [i \in 1..Len(j.ents) |-> [key |-> ScalarV("string", j.ents[i].key),
                                           val |-> Dynamic(j.ents[i].val)]]))

RECURSIVE Unmarshal(_, _)
RECURSIVE UnmarshalField(_, _, _)
RECURSIVE UnmarshalMembers(_, _, _)

\* the member j decoded into the field of v at index, the nil pointers on
\* the way allocated
UnmarshalField(j, v, index) ==
  IF index = <<>> THEN Unmarshal(j, v)
  ELSE IF KindOf(v) = "ptr"
  THEN PtrV(v.t, UnmarshalField(j, IF v.nil THEN Zero(Types[v.t].elem) ELSE v.elem, index))
  ELSE [v EXCEPT !.fields[Head(index) + 1] = UnmarshalField(j, @, Tail(index))]

\* the members ents[i..] of an object decoded into the struct or map v
UnmarshalMembers(ents, v, i) ==
  IF i > Len(ents) THEN v
  ELSE UnmarshalMembers(ents,
         IF KindOf(v) = "map"
         THEN [v EXCEPT !.ents = SetMapIndex(@, ScalarV("string", ents[i].key),
                                   Unmarshal(ents[i].val, Zero(Types[v.t].elem)))]
         ELSE IF ents[i].key \in DOMAIN FieldPlan[v.t].byExactName
         THEN UnmarshalField(ents[i].val, v,
                FieldPlan[v.t].list[FieldPlan[v.t].byExactName[ents[i].key]].index)
         ELSE v,
         i + 1)

\* json.Unmarshal of the JSON value j into a location that holds v: the
\* value the location holds afterwards (a JSON value that does not fit the
\* location's type leaves it as it is)
Unmarshal(j, v) ==
  IF j.j = "null"
  THEN IF KindOf(v) \in {"ptr", "iface", "map", "slice"} THEN Zero(v.t) ELSE v
  ELSE CASE KindOf(v) = "ptr" ->
              PtrV(v.t, Unmarshal(j, IF v.nil THEN Zero(Types[v.t].elem) ELSE v.elem))
         [] KindOf(v) = "iface" ->
              IF ~v.nil /\ KindOf(v.elem) = "ptr" /\ ~v.elem.nil
              THEN PtrV(v.t, Unmarshal(j, v.elem))
              ELSE Dynamic(j)
         [] KindOf(v) = "struct" /\ j.j = "obj" -> UnmarshalMembers(j.ents, v, 1)
         [] KindOf(v) = "map" /\ j.j = "obj" /\ Kind(Types[v.t].key) = "string" ->
              UnmarshalMembers(j.ents, [v EXCEPT !.nil = FALSE], 1)
         [] KindOf(v) = "slice" /\ j.j = "arr" ->
              SliceV(v.t, FALSE, [i \in 1..Len(j.es) |->
                 Unmarshal(j.es[i], IF i <= Len(v.elems) THEN v.elems[i]
                                    ELSE Zero(Types[v.t].elem))])
         [] KindOf(v) = "array" /\ j.j = "arr" ->
              ArrayV(v.t, [i \in 1..Len(v.elems) |->
                 IF i <= Len(j.es) THEN Unmarshal(j.es[i], v.elems[i])
                 ELSE Zero(Types[v.t].elem)])
         [] KindOf(v) = "bool" /\ j.j = "bool" -> ScalarV(v.t, j.v)
         [] KindOf(v) \in {"int", "uint8", "float64"} /\ j.j = "num" -> ScalarV(v.t, j.v)
         [] KindOf(v) = "string" /\ j.j = "str" -> ScalarV(v.t, j.v)
         [] OTHER -> v

\* jsonEncoding.Convert(src, dest), dest a non-nil pointer: the
\* destination pointer afterwards
JSONConvert(src, dest) == Unmarshal(Marshal(src), dest)

\* "b, _ := json.Marshal(p); _ = json.Unmarshal(b, &p)" for an interface
\* p that holds the value v: what p holds afterwards
Normalize(v) == Unmarshal(Marshal(v), PtrV("any", v))

(* ------------------------ scalar coercion helpers ---------------------- *)
\* A helper returns a value and an error ("nil" when there is none), or
\* panics.  Numbers are written in decimal; a time.Time is the pair of
\* time.Unix, a time.Duration a number of nanoseconds.
Returned(v, err) == [v |-> v, err |-> err, panic |-> FALSE]
\* "invalid memory address or nil pointer dereference"
NilDereference == [panic |-> TRUE]

ZeroTime == [t |-> "time.Time", zero |-> TRUE]
\* time.Unix(i/int64(time.Second), i%int64(time.Second))
TimeUnix(i) == [t |-> "time.Time", sec |-> i \div 1000000000, nsec |-> i % 1000000000]
Duration(n) == [t |-> "time.Duration", v |-> n]

\* the number a numeric value of the model holds
IntOf(x) == CASE x = "0" -> 0 [] x = "1" -> 1 [] x = "7" -> 7

\* unitMap, without "m" and "h"
unitMap == "ns" :> 1 @@ "us" :> 1000 @@ "ms" :> 1000000 @@ "s" :> 1000000000

\* "unitN, _ := unitMap[format]"
UnitOf(format) == IF format \in DOMAIN unitMap THEN unitMap[format] ELSE 0

\* arg.TimeFormat once every option has been applied to it
TimeFormatOf(default, opts) == IF opts = <<>> THEN default ELSE opts[Len(opts)]

\* the layout parseFormatTime starts from, and the text of its reference time
DefaultLayout == "2006-01-02 15:04:05 -0700"

\* strconv.ParseInt(s, 0, 0) on the strings of the model
ParseInt(s) ==
  IF s \in {"0", "1", "7"} THEN Returned(IntOf(s), "nil")
  ELSE Returned(0, "strconv.ParseInt: invalid syntax")

\* time.ParseDuration(s) on the strings of the model
ParseDuration(s) ==
  CASE s = "0" -> Returned(Duration(0), "nil")
    [] s = "1s" -> Returned(Duration(1000000000), "nil")
    [] s = "1ms" -> Returned(Duration(1000000), "nil")
    [] OTHER -> Returned(Duration(0), "time: invalid duration")

\* time.Parse(layout, v) on the strings of the model: the reference time
\* written in the layout is the one text that parses
TimeParse(layout, v) ==
  IF v = layout /\ layout = DefaultLayout THEN Returned(TimeUnix(1136239445), "nil")
  ELSE Returned(ZeroTime, "parsing time: cannot parse")

parseFormatTime(v, opts) ==
  IF ParseDuration(v).err = "nil" THEN Returned(TimeUnix(ParseDuration(v).v.v), "nil")
  ELSE TimeParse(TimeFormatOf(DefaultLayout, opts), v)

parseTimestamp(n, opts) == TimeUnix(n * UnitOf(TimeFormatOf("ns", opts)))

\* the numeric types with a case of their own in the type switches, and
\* the pointers to them
NumericTypes == {"int", "uint8", "float64"}
NumericPtrTypes == {"*int", "*float64"}

\* A case for a pointer type does to *s what the case for the pointed-to
\* type does to s, and "*s" panics when s is nil.
RECURSIVE ToInt64E(_)
ToInt64E(i) ==
  CASE i.t = "invalid" -> Returned(0, "nil")
    [] i.t \in NumericTypes -> Returned(IntOf(i.v), "nil")
    [] i.t = "string" -> ParseInt(i.v)
    [] i.t = "bool" -> Returned(IF i.v = "true" THEN 1 ELSE 0, "nil")
    [] i.t \in NumericPtrTypes \cup {"*string", "*bool"} ->
         IF i.nil THEN NilDereference ELSE ToInt64E(i.elem)
    [] OTHER -> Returned(0, "unable to cast type to int64")

\* base is 1 without options, else the unit of the last TimeFormat
RECURSIVE ToDurationE(_, _)
ToDurationE(i, opts) ==
  CASE i.t = "invalid" -> Returned(Duration(0), "nil")
    [] i.t \in NumericTypes ->
         Returned(Duration(IntOf(i.v) * UnitOf(TimeFormatOf("ns", opts))), "nil")
    [] i.t = "string" -> ParseDuration(i.v)
    [] i.t \in NumericPtrTypes \cup {"*string"} ->
         IF i.nil THEN NilDereference ELSE ToDurationE(i.elem, opts)
    [] i.t = "time.Duration" -> Returned(i, "nil")
    [] OTHER -> Returned(Duration(0), "unable to cast type to time.Duration")

RECURSIVE ToTimeE(_, _)
ToTimeE(i, opts) ==
  CASE i.t = "invalid" -> Returned(ZeroTime, "nil")
    [] i.t \in NumericTypes -> Returned(parseTimestamp(IntOf(i.v), opts), "nil")
    [] i.t = "string" -> parseFormatTime(i.v, opts)
    [] i.t = "time.Time" -> Returned(i, "nil")
    [] i.t \in NumericPtrTypes \cup {"*string", "*time.Time"} ->
         IF i.nil THEN NilDereference ELSE ToTimeE(i.elem, opts)
    [] OTHER -> Returned(ZeroTime, "unable to cast type to Time")

\* rv.Elem().Interface(): what the interface made of e holds
Interface(e) == IF KindOf(e) # "iface" THEN e ELSE IF e.nil THEN Invalid ELSE e.elem

\* ToString(i): the string returned (a number as strconv formats it, a
\* time as its String(), anything else as the JSON text of json.Marshal);
\* the name ToString is taken by the TLC module
RECURSIVE CastToString(_)
CastToString(i) ==
  CASE i.t = "invalid" -> Returned("", "nil")
    [] i.t \in NumericTypes -> Returned(ToString(IntOf(i.v)), "nil")
    [] i.t \in {"string", "bool"} -> Returned(i.v, "nil")
    [] i.t \in NumericPtrTypes \cup {"*string", "*bool"} ->
         IF i.nil THEN NilDereference ELSE CastToString(i.elem)
    [] i.t = "*time.Time" -> IF i.nil THEN Returned("", "nil") ELSE Returned(i.elem, "nil")
    [] i.t \in {"time.Time", "time.Duration"} -> Returned(i, "nil")
    [] OTHER ->
         IF KindOf(i) \in {"map", "slice", "func", "ptr", "iface"} /\ i.nil
         THEN Returned("", "nil")
         ELSE IF KindOf(i) = "ptr" THEN CastToString(Interface(i.elem))
         ELSE IF KindOf(i) = "string" THEN Returned(i.v, "nil")
         ELSE Returned(Marshal(i), "nil")

\* to(i, v, opts...) with v a *T: the case of the type switch for T
to(i, T, opts) ==
  CASE T = "int64" -> ToInt64E(i)
    [] T = "string" -> CastToString(i)
    [] T = "time.Duration" -> ToDurationE(i, opts)
    [] T = "time.Time" -> ToTimeE(i, opts)

\* To[T](i, opts...): var t T; to(i, &t), returning t and the error
To(T, i, opts) == to(i, T, <<>>)

\* the helper fn applied to i with the options opts
Helper(fn, i, opts) ==
  CASE fn = "ToString" -> CastToString(i)
    [] fn = "ToInt64E" -> ToInt64E(i)
    [] fn = "ToDurationE" -> ToDurationE(i, opts)
    [] fn = "ToTimeE" -> ToTimeE(i, opts)
    [] fn = "To[time.Duration]" -> To("time.Duration", i, opts)
    [] fn = "To[time.Time]" -> To("time.Time", i, opts)

(* ------------------------------- inputs -------------------------------- *)
\* the sequences over S of length at most n
SeqsUpTo(S, n) == UNION {[1..k -> S] : k \in 0..n}

\* the concrete values an interface of the generated values holds
DynValues ==
  { ScalarV("int", "1"), ScalarV("string", "a"),
    StructV("Person", <<ScalarV("string", "a"), ScalarV("int", "1")>>),
    SliceV("[]int", FALSE, <<ScalarV("int", "1")>>),
    MapV("map[string]int", FALSE,
         <<[key |-> ScalarV("string", "a"), val |-> ScalarV("int", "1")]>>),
    PtrV("*int", ScalarV("int", "1")) }

\* the values of type t: scalars from two values each, slices and maps of
\* at most MaxLen elements (a map's entries in the order this run's
\* MapRange yields them), pointers nested at most d deep
RECURSIVE ValuesOf(_, _)
RECURSIVE FieldValues(_, _, _)
FieldValues(fs, i, d) ==
  IF i > Len(fs) THEN {<<>>}
  ELSE {<<x>> \o r : x \in ValuesOf(fs[i].typ, d), r \in FieldValues(fs, i + 1, d)}

ValuesOf(t, d) ==
  LET k == Kind(t) IN
  CASE k \in {"int", "uint8"} -> {ScalarV(t, "0"), ScalarV(t, "1")}
    [] k = "string" -> {ScalarV(t, ""), ScalarV(t, "a")}
    [] k = "bool" -> {ScalarV(t, "false"), ScalarV(t, "true")}
    [] k = "func" -> {NilPtr(t)}
    [] k = "ptr" -> {NilPtr(t)} \cup
         (IF d = 0 THEN {} ELSE {PtrV(t, e) : e \in ValuesOf(Types[t].elem, d - 1)})
    [] k = "iface" -> {NilPtr(t)} \cup {PtrV(t, e) : e \in DynValues}
    [] k = "slice" -> {SliceV(t, TRUE, <<>>)} \cup
         {SliceV(t, FALSE, es) : es \in SeqsUpTo(ValuesOf(Types[t].elem, d), MaxLen)}
    [] k = "array" ->
         {ArrayV(t, es) : es \in [1..Types[t].len -> ValuesOf(Types[t].elem, d)]}
    [] k = "map" -> {MapV(t, TRUE, <<>>)} \cup
         {MapV(t, FALSE, es) :
            es \in {x \in SeqsUpTo([key : ValuesOf(Types[t].key, d),
                                    val : ValuesOf(Types[t].elem, d)], MaxLen) :
                      \A i, j \in 1..Len(x) : x[i].key = x[j].key => i = j}}
    [] k = "struct" -> {StructV(t, fs) : fs \in FieldValues(Types[t].fields, 1, d)}

\* a value of type t that differs from every generated source value and
\* from Zero(t): what a destination holds before the call
RECURSIVE Preset(_, _)
Preset(t, d) ==
  LET k == Kind(t) IN
  CASE k \in {"int", "uint8"} -> ScalarV(t, "7")
    [] k = "string" -> ScalarV(t, "z")
    [] k = "bool" -> ScalarV(t, "true")
    [] k = "func" -> NilPtr(t)
    [] k = "ptr" -> IF d = 0 THEN NilPtr(t) ELSE PtrV(t, Preset(Types[t].elem, d - 1))
    [] k = "iface" -> PtrV(t, ScalarV("int", "7"))
    [] k = "slice" -> SliceV(t, FALSE, <<Preset(Types[t].elem, d), Preset(Types[t].elem, d)>>)
    [] k = "array" -> ArrayV(t, [i \in 1..Types[t].len |-> Preset(Types[t].elem, d)])
    [] k = "map" -> MapV(t, FALSE, <<[key |-> Preset(Types[t].key, d),
                                      val |-> Preset(Types[t].elem, d)]>>)
    [] k = "struct" ->
         StructV(t, [i \in 1..NumField(t) |-> Preset(Types[t].fields[i].typ, d)])

\* the pointer type *t
PtrType(t) == CHOOSE p \in DOMAIN PointerTo : PointerTo[p] = t

\* the types V of the sources &V
SrcRoots ==
  { "Person", "Tagged", "Plain", "Empty", "HP", "HS", "HA", "HM", "HI", "HF",
    "Node", "Amb", "TagWin", "TwoTag", "Three", "Shadow", "Deep", "Dia", "Over", "PE", "UE",
    "int", "string", "any", "[]int", "[2]int", "map[string]int", "map[int]int" }

\* the destination types tried for a source of type t, besides t itself
\* and the empty interface
OtherDests ==
     "Person" :> {"City", "PersonS", "map[string]int", "map[string]any", "int"}
  @@ "Tagged" :> {"Plain"}
  @@ "Plain"  :> {"Tagged"}
  @@ "HS" :> {"HA", "HP", "HM"}
  @@ "HA" :> {"HS"}
  @@ "HM" :> {"HI", "HS"}
  @@ "HP" :> {"HS"}
  @@ "PE" :> {"UE", "EA"}
  @@ "UE" :> {"PE"}
  @@ "Amb" :> {"EA", "Shadow"}
  @@ "Three" :> {"Amb"}
  @@ "EA" :> {"Amb", "PE", "UE"}
  @@ "int" :> {"string", "**int"}
  @@ "[]int" :> {"[2]int", "[1]int", "string", "map[string]int", "Person"}
  @@ "[2]int" :> {"[]int", "[1]int"}
  @@ "map[string]int" :> {"map[int]int", "map[string]any", "HM", "Person", "[]int", "Node"}
  @@ "map[int]int" :> {"map[string]int"}

DestTypes(t) == {t, "any"} \cup (IF t \in DOMAIN OtherDests THEN OtherDests[t] ELSE {})

\* the fresh and the used destination &d, d of type t
DestsOf(t) ==
  {PtrV(PtrType(t), Zero(t)), PtrV(PtrType(t), Preset(t, 1))}

\* destination arguments Convert rejects: nil, a struct, a nil pointer
BadDests == {Invalid, Zero("Person"), NilPtr("*Person")}

\* the calls FAST.Convert(&V, dest)
PointerInputs ==
  UNION {{[src |-> PtrV(PtrType(t), v), dest |-> d] :
            v \in ValuesOf(t, MaxChain - 1), d \in UNION {DestsOf(u) : u \in DestTypes(t)}}
         : t \in SrcRoots}

\* the calls whose source is a map or a slice passed as it is
DirectInputs ==
  UNION {{[src |-> v, dest |-> d] :
            v \in ValuesOf(t, 1), d \in UNION {DestsOf(u) : u \in DestTypes(t)}}
         : t \in {"map[string]int", "[]int"}}

\* the calls whose source is no pointer, map or slice: passed by value
ByValueInputs ==
  {[src |-> v, dest |-> PtrV(PtrType(v.t), Zero(v.t))] :
     v \in {ScalarV("int", "1"), ScalarV("string", "a"), Zero("Person"), Zero("[2]int")}}

\* the calls with an absent source or a destination that is not a non-nil
\* pointer
EdgeInputs ==
  {[src |-> v, dest |-> d] :
     v \in {Invalid, NilPtr("*Person"), MapV("map[string]int", TRUE, <<>>),
            SliceV("[]int", TRUE, <<>>), PtrV("*Person", Zero("Person")),
            MapV("map[string]int", FALSE, <<>>)},
     d \in BadDests \cup DestsOf("Person")}

\* the calls FAST.Convert(src, &d2) of TestFastEncoding: src a pointer to
\* a struct whose fields all carry json name tags, d2 fresh of that type
TaggedInputs ==
  {[src |-> PtrV("*Tweet", v), dest |-> PtrV("*Tweet", Zero("Tweet"))] :
     v \in ValuesOf("Tweet", 1)}

\* the arguments i of the helpers: the nil interface, scalars, pointers
\* to scalars (nil and not), nil and non-nil slices, maps and struct
\* pointers, a named int, times and a duration
HelperInputs ==
  { Invalid, ScalarV("int", "0"), ScalarV("int", "1"), ScalarV("uint8", "1"),
    ScalarV("float64", "1"), ScalarV("MyInt", "1"),
    ScalarV("bool", "true"), ScalarV("bool", "false"),
    ZeroTime, TimeUnix(1), Duration(1),
    [t |-> "*time.Time", nil |-> TRUE], PtrV("*time.Time", ZeroTime),
    NilPtr("*Person"), PtrV("*Person", Zero("Person")),
    SliceV("[]int", TRUE, <<>>), SliceV("[]int", FALSE, <<ScalarV("int", "1")>>),
    MapV("map[string]int", TRUE, <<>>), MapV("map[string]int", FALSE, <<>>),
    PtrV("*any", NilPtr("any")), PtrV("**int", NilPtr("*int")) }
  \cup {ScalarV("string", x) : x \in {"", "a", "1", "0", "1s", DefaultLayout}}
  \cup {NilPtr(t) : t \in {"*int", "*float64", "*string", "*bool", "**int"}}
  \cup {PtrV("*int", ScalarV("int", "1")), PtrV("*float64", ScalarV("float64", "1")),
        PtrV("*string", ScalarV("string", "1s")), PtrV("*bool", ScalarV("bool", "true"))}

\* the options of a call: none, TimeFormat("s"), TimeFormat of no unit
HelperOptions == {<<>>, <<"s">>, <<"ms", "s">>, <<"2006">>}

Inputs == PointerInputs \cup DirectInputs \cup ByValueInputs \cup EdgeInputs \cup TaggedInputs

\* a chain of n Nodes, carrying 1, 0, 1, ... from its end
RECURSIVE Chain(_)
Chain(n) ==
  IF n = 0 THEN NilPtr("*Node")
  ELSE PtrV("*Node", StructV("Node", <<ScalarV("int", IF n % 2 = 1 THEN "1" ELSE "0"),
                                       Chain(n - 1)>>))

\* the calls of the concurrent callers: a chain of the self-referential
\* type Node into a fresh Node and into an empty interface, the first Node
\* of the chain held in an interface (its encoder is asked for Node before
\* *Node), and a struct into a used struct of another type
ConcInputs ==
  { [src |-> Chain(MaxChain), dest |-> PtrV("*Node", Zero("Node"))],
    [src |-> Chain(MaxChain), dest |-> PtrV("*any", Zero("any"))],
    [src |-> PtrV("*any", PtrV("any", Chain(MaxChain).elem)),
     dest |-> PtrV("*any", Zero("any"))],
    [src |-> PtrV("*Person", StructV("Person", <<ScalarV("string", "a"), ScalarV("int", "1")>>)),
     dest |-> PtrV("*City", Preset("City", 1))] }

(* ------------------------------- state --------------------------------- *)
VARIABLES
  call,          \* call[p]: caller p's FAST.Convert call (see NewCall)
  stack,         \* stack[p]: p's frames of typeEncoder, newTypeEncoder,
                 \*   cachedTypeFields and typeFields, innermost last
  pool,          \* middleValueListPool: the arenas resting in it
  encoderCache,  \* encoderCache: type -> the encoder stored for it
  fieldCache,    \* fieldCache: struct type -> its structFields
  allocated,     \* the number of MiddleValueLists allocated so far
  computed,      \* history: computed[t], the callers that ran newTypeEncoder(t)
  resolved       \* history: resolved[t], the callers that ran typeFields(t)

vars == <<call, stack, pool, encoderCache, fieldCache, allocated, computed, resolved>>

\* no MiddleValueList
NoArena == [id |-> 0, List |-> <<>>, spare |-> <<>>]

\* A call of Convert(src, dest): pc is the position in it; dest0 the
\* destination argument as passed and dest the same pointer with what it
\* points to now; ret the result ("none" while running, then "nil",
\* "error" for the InvalidUnmarshalError, or "panic"); l the arena checked
\* out; reqs[ri..] the types still to ask typeEncoder (while encoding) or
\* cachedTypeFields (while materializing) for; panicking: a panic is
\* unwinding and the deferred Put has yet to run; round: 1 for the
\* caller's first call, 2 for the call it makes with the result of the first.
NewCall(src, dest) ==
  [pc |-> "start", src |-> src, dest0 |-> dest, dest |-> dest, ret |-> "none",
   l |-> NoArena, reqs |-> <<>>, ri |-> 1, panicking |-> FALSE, round |-> 1]

\* the callers of the concurrent specification
Procs == {"p1", "p2"}

\* the callers of this behaviour
Callers == DOMAIN call

(* ------------------------------- Convert ------------------------------- *)
\* !srcValue.IsValid() || srcValue.IsNil(), where IsNil is defined
SrcAbsent(srcValue) == KindOf(srcValue) = "invalid" \/ srcValue.nil

\* srcValue.IsNil() panics: the kind has no nil
IsNilPanics(srcValue) == KindOf(srcValue) \notin NilableKinds \cup {"invalid"}

\* a check that also rejects a pointer to a struct
DestInvalidStrict(destValue) ==
  KindOf(destValue) # "ptr" \/ destValue.nil \/ KindOf(destValue.elem) = "struct"

\* destValue.Kind() != reflect.Ptr || destValue.IsNil()
DestInvalid(destValue) == KindOf(destValue) # "ptr" \/ destValue.nil

\* the destination checked before the source
ConvertEntryDestFirst(src, dest) ==
  IF DestInvalid(dest) THEN "error"
  ELSE IF IsNilPanics(src) THEN "panic"
  ELSE IF SrcAbsent(src) THEN "nil"
  ELSE "proceed"

\* lines 49-56 of Convert: how the call leaves them
ConvertEntry(src, dest) ==
  IF IsNilPanics(src) THEN "panic"
  ELSE IF SrcAbsent(src) THEN "nil"
  ELSE IF DestInvalid(dest) THEN "error"
  ELSE "proceed"

\* The calls that reach the encoder, and for each what reflectValue makes
\* of its source on a checked-out arena (whose List is the cleared root)
\* and what fromMiddleValue then makes of its destination: both are
\* functions of the arguments alone.
Proceeding == {in \in Inputs \cup ConcInputs : ConvertEntry(in.src, in.dest) = "proceed"}

\* the call is Convert(&V, &d) with d a fresh (zero) value of its type
Fresh(in) ==
  /\ KindOf(in.src) = "ptr" /\ ~in.src.nil
  /\ KindOf(in.dest) = "ptr" /\ ~in.dest.nil
  /\ in.dest = PtrV(in.dest.t, Zero(in.dest.elem.t))

\* lines 59-60 of Convert on a checked-out arena: the encoding l of the
\* source and the outcome of fromMiddleValue for dest
Converted(l, dest) ==
  [enc |-> l, out |-> fromMiddleValue(l.List, At(l.List, 0), Loc(dest, FALSE, FALSE))]

\* the calls Convert(&d, &d2) that follow the calls Convert(&V, &d) of
\* table prev which returned nil: d as that call left it, d2 fresh of d's
\* type; the calls before any other are those of Proceeding
Reconverting(prev) ==
  IF DOMAIN prev = {} THEN Proceeding
  ELSE {[src |-> prev[in].out.v, dest |-> in.dest] :
          in \in {y \in DOMAIN prev : Fresh(y) /\ ~prev[y].out.panic}}

\* what Convert computes for each call that n calls in a row can make
RECURSIVE Conversions(_)
Conversions(n) ==
  IF n = 0 THEN [in \in {} |-> in]
  ELSE [in \in Reconverting(Conversions(n - 1)) |->
          Converted(reflectValue(<<ZeroMV>>, in.src), in.dest)]
       @@ Conversions(n - 1)

\* for a first call and the call that follows it; the actions of a call
\* look its arguments up in this table, which they are handed as "of"
ConversionOf == Conversions(2)
\* the arguments of a call
Args(c) == [src |-> c.src, dest |-> c.dest0]

ConvertStart(p) ==
  /\ call[p].pc = "start"
  /\ LET e == ConvertEntry(call[p].src, call[p].dest)
     IN call' = [call EXCEPT ![p].pc = IF e = "proceed" THEN "checkout" ELSE "done",
                             ![p].ret = IF e = "proceed" THEN "none" ELSE e]
  /\ UNCHANGED <<stack, pool, encoderCache, fieldCache, allocated, computed, resolved>>

\* MiddleValueList.Reset: the root is cleared, the length cut to 1; the
\* slots after it stay in the buffer as they are
Reset(a) == [a EXCEPT !.List = <<ZeroMV>>, !.spare = Tail(a.List) \o a.spare]

\* a Get that hands out an arena of the pool and leaves it there
CheckoutShared(p, of) ==
  /\ call[p].pc = "checkout"
  /\ \E a \in pool \cup {NoArena} :
       /\ pool' = pool
       /\ allocated' = IF a = NoArena THEN allocated + 1 ELSE allocated
       /\ call' = [call EXCEPT
            ![p].pc = "encode",
            ![p].l = IF a = NoArena
                     THEN [id |-> allocated + 1, List |-> <<ZeroMV>>, spare |-> <<>>]
                     ELSE Reset(a),
            ![p].reqs = <<call[p].src.t>> \o of[Args(call[p])].enc.dyn,
            ![p].ri = 1]
  /\ UNCHANGED <<stack, encoderCache, fieldCache, computed, resolved>>

\* newMiddleValueList and the defer of Put: sync.Pool.Get yields an arena
\* of the pool or nothing, and then a new one is made
Checkout(p, of) ==
  /\ call[p].pc = "checkout"
  /\ \E a \in pool \cup {NoArena} :
       /\ pool' = pool \ {a}
       /\ allocated' = IF a = NoArena THEN allocated + 1 ELSE allocated
       /\ call' = [call EXCEPT
            ![p].pc = "encode",
            ![p].l = IF a = NoArena
                     THEN [id |-> allocated + 1, List |-> <<ZeroMV>>, spare |-> <<>>]
                     ELSE Reset(a),
            ![p].reqs = <<call[p].src.t>> \o of[Args(call[p])].enc.dyn,
            ![p].ri = 1]
  /\ UNCHANGED <<stack, encoderCache, fieldCache, computed, resolved>>

(* ------------------------------- planner ------------------------------- *)
\* the history h with one more run for type t, by caller p
Logged(h, t, p) ==
  IF t \in DOMAIN h THEN [h EXCEPT ![t] = Append(@, p)] ELSE (t :> <<p>>) @@ h

Frame(fn, t, pc) == [fn |-> fn, t |-> t, pc |-> pc, i |-> 1]

Top(p) == stack[p][Len(stack[p])]
Running(p, fn, pc) == stack[p] # <<>> /\ Top(p).fn = fn /\ Top(p).pc = pc

Pop(st) == SubSeq(st, 1, Len(st) - 1)
\* the top frame moves to pc
Goto(st, pc) == [st EXCEPT ![Len(st)].pc = pc]
\* the top frame moves to pc and calls fn(t)
Call(st, pc, fn, t, entry) == Append(Goto(st, pc), Frame(fn, t, entry))

\* valueEncoder(v) asks typeEncoder for the next type the encoding needs
RequestEncoder(p) ==
  /\ call[p].pc = "encode" /\ stack[p] = <<>> /\ call[p].ri <= Len(call[p].reqs)
  /\ stack' = [stack EXCEPT ![p] = <<Frame("typeEncoder", call[p].reqs[call[p].ri], "load")>>]
  /\ call' = [call EXCEPT ![p].ri = @ + 1]
  /\ UNCHANGED <<pool, encoderCache, fieldCache, allocated, computed, resolved>>

\* typeEncoder line 119: encoderCache.Load(t)
TypeEncoderLoad(p) ==
  /\ Running(p, "typeEncoder", "load")
  /\ stack' = [stack EXCEPT ![p] = IF Top(p).t \in DOMAIN encoderCache
                                   THEN Pop(@) ELSE Goto(@, "loadOrStore")]
  /\ UNCHANGED <<call, pool, encoderCache, fieldCache, allocated, computed, resolved>>

\* the entry LoadOrStore stores: the indirect func of caller p, whose
\* WaitGroup is not done
Placeholder(p) == [real |-> FALSE, ready |-> FALSE, by |-> p]

\* a plain Store in place of LoadOrStore: the caller always computes
TypeEncoderStoreAlways(p) ==
  /\ Running(p, "typeEncoder", "loadOrStore")
  /\ stack' = [stack EXCEPT ![p] = Goto(@, "compute")]
  /\ encoderCache' = (Top(p).t :> Placeholder(p)) @@ encoderCache
  /\ UNCHANGED <<call, pool, fieldCache, allocated, computed, resolved>>

\* typeEncoder lines 131-138: wg.Add(1) and encoderCache.LoadOrStore
TypeEncoderLoadOrStore(p) ==
  /\ Running(p, "typeEncoder", "loadOrStore")
  /\ LET t == Top(p).t
     IN IF t \in DOMAIN encoderCache
        THEN /\ stack' = [stack EXCEPT ![p] = Pop(@)]
             /\ UNCHANGED encoderCache
        ELSE /\ stack' = [stack EXCEPT ![p] = Goto(@, "compute")]
             /\ encoderCache' = (t :> Placeholder(p)) @@ encoderCache
  /\ UNCHANGED <<call, pool, fieldCache, allocated, computed, resolved>>

\* typeEncoder line 141: f = newTypeEncoder(t)
TypeEncoderCompute(p) ==
  /\ Running(p, "typeEncoder", "compute")
  /\ stack' = [stack EXCEPT ![p] = Call(@, "done", "newTypeEncoder", Top(p).t, "enter")]
  /\ computed' = Logged(computed, Top(p).t, p)
  /\ UNCHANGED <<call, pool, encoderCache, fieldCache, allocated, resolved>>

\* newTypeEncoder: the call it makes for t's kind before it returns the
\* encoder, if any
NewTypeEncoderEnter(p) ==
  /\ Running(p, "newTypeEncoder", "enter")
  /\ LET t == Top(p).t
     IN stack' = [stack EXCEPT ![p] =
          IF Kind(t) \in {"ptr", "array", "slice", "map"}
          THEN Call(@, "return", "typeEncoder", Types[t].elem, "load")
          ELSE IF Kind(t) = "struct"
          THEN Call(@, "return", "cachedTypeFields", t, "load")
          ELSE Pop(@)]
  /\ UNCHANGED <<call, pool, encoderCache, fieldCache, allocated, computed, resolved>>

NewTypeEncoderReturn(p) ==
  /\ Running(p, "newTypeEncoder", "return")
  /\ stack' = [stack EXCEPT ![p] = Pop(@)]
  /\ UNCHANGED <<call, pool, encoderCache, fieldCache, allocated, computed, resolved>>

\* wg.Done() is never called
TypeEncoderNeverDone(p) ==
  /\ Running(p, "typeEncoder", "done")
  /\ stack' = [stack EXCEPT ![p] = Goto(@, "store")]
  /\ UNCHANGED <<call, pool, encoderCache, fieldCache, allocated, computed, resolved>>

\* typeEncoder line 142: wg.Done()
TypeEncoderDone(p) ==
  /\ Running(p, "typeEncoder", "done")
  /\ encoderCache' = [encoderCache EXCEPT ![Top(p).t].ready = TRUE]
  /\ stack' = [stack EXCEPT ![p] = Goto(@, "store")]
  /\ UNCHANGED <<call, pool, fieldCache, allocated, computed, resolved>>

\* typeEncoder lines 143-144: encoderCache.Store(t, f); return f
TypeEncoderStore(p) ==
  /\ Running(p, "typeEncoder", "store")
  /\ encoderCache' = [encoderCache EXCEPT ![Top(p).t].real = TRUE]
  /\ stack' = [stack EXCEPT ![p] = Pop(@)]
  /\ UNCHANGED <<call, pool, fieldCache, allocated, computed, resolved>>

\* cachedTypeFields line 598: fieldCache.Load(t); on a miss typeFields(t)
\* is called
CachedTypeFieldsLoad(p) ==
  /\ Running(p, "cachedTypeFields", "load")
  /\ LET t == Top(p).t
     IN IF t \in DOMAIN fieldCache
        THEN /\ stack' = [stack EXCEPT ![p] = Pop(@)]
             /\ UNCHANGED resolved
        ELSE /\ stack' = [stack EXCEPT ![p] = Call(@, "loadOrStore", "typeFields", t, "fields")]
             /\ resolved' = Logged(resolved, t, p)
  /\ UNCHANGED <<call, pool, encoderCache, fieldCache, allocated, computed>>

\* typeFields lines 749-752: f.encoder = typeEncoder(typeByIndex(t,
\* f.index)) for each field in turn, then the return
TypeFieldsEncoders(p) ==
  /\ Running(p, "typeFields", "fields")
  /\ LET fr == Top(p)
         list == FieldPlan[fr.t].list
     IN stack' = [stack EXCEPT ![p] =
          IF fr.i > Len(list) THEN Pop(@)
          ELSE Append([@ EXCEPT ![Len(@)].i = fr.i + 1],
                      Frame("typeEncoder", list[fr.i].enc, "load"))]
  /\ UNCHANGED <<call, pool, encoderCache, fieldCache, allocated, computed, resolved>>

\* cachedTypeFields line 601: fieldCache.LoadOrStore(t, typeFields(t))
CachedTypeFieldsLoadOrStore(p) ==
  /\ Running(p, "cachedTypeFields", "loadOrStore")
  /\ LET t == Top(p).t
     IN fieldCache' = IF t \in DOMAIN fieldCache THEN fieldCache
                      ELSE (t :> FieldPlan[t]) @@ fieldCache
  /\ stack' = [stack EXCEPT ![p] = Pop(@)]
  /\ UNCHANGED <<call, pool, encoderCache, allocated, computed, resolved>>

(* ----------------------- encoding, materializing ----------------------- *)
\* the indirect func does not wait
ReadyAtOnce(t) == t \in DOMAIN encoderCache

\* the encoder of type t can run: the WaitGroup of its indirect func is done
Ready(t) == t \in DOMAIN encoderCache /\ encoderCache[t].ready

\* the number of nodes an encoding appended: so many slots of the buffer
\* were overwritten with MiddleValue{}
Overwrite(spare, n) == IF n >= Len(spare) THEN <<>> ELSE SubSeq(spare, n + 1, Len(spare))

\* reflectValue(l, 0, srcValue) once every encoder has been obtained; an
\* indirect func among them waits until its WaitGroup is done.  The arena
\* was checked out with the cleared root as its List, so the encoding is
\* that of the table; the call needs the plans of the struct types that
\* fromMiddleValue will ask cachedTypeFields for.
Encode(p, of) ==
  /\ call[p].pc = "encode" /\ stack[p] = <<>> /\ call[p].ri > Len(call[p].reqs)
  /\ \E st \in {of[Args(call[p])].enc} :
     \E out \in {of[Args(call[p])].out} :
        /\ \A t \in st.seen : Ready(t)
        /\ call' = [call EXCEPT
             ![p].pc = "materialize",
             ![p].l = [@ EXCEPT !.List = st.List,
                                !.spare = Overwrite(@, Len(st.List) - 1)],
             ![p].reqs = out.ctf,
             ![p].ri = 1]
  /\ UNCHANGED <<stack, pool, encoderCache, fieldCache, allocated, computed, resolved>>

\* fromMapToStruct asks cachedTypeFields for the next destination struct type
RequestFields(p) ==
  /\ call[p].pc = "materialize" /\ stack[p] = <<>> /\ call[p].ri <= Len(call[p].reqs)
  /\ stack' = [stack EXCEPT
       ![p] = <<Frame("cachedTypeFields", call[p].reqs[call[p].ri], "load")>>]
  /\ call' = [call EXCEPT ![p].ri = @ + 1]
  /\ UNCHANGED <<pool, encoderCache, fieldCache, allocated, computed, resolved>>

\* fromMiddleValue(l, l.List[0], destValue)
Materialize(p, of) ==
  /\ call[p].pc = "materialize" /\ stack[p] = <<>> /\ call[p].ri > Len(call[p].reqs)
  /\ \E out \in {of[Args(call[p])].out} :
       call' = [call EXCEPT ![p].pc = "put",
                             ![p].dest = out.v,
                             ![p].panicking = out.panic]
  /\ UNCHANGED <<stack, pool, encoderCache, fieldCache, allocated, computed, resolved>>

\* a Put that is not deferred: a panic skips it
ReleaseUnlessPanic(p) ==
  /\ call[p].pc = "put"
  /\ pool' = IF call[p].panicking THEN pool ELSE pool \cup {call[p].l}
  /\ call' = [call EXCEPT ![p].pc = "done",
                          ![p].ret = IF call[p].panicking THEN "panic" ELSE "nil"]
  /\ UNCHANGED <<stack, encoderCache, fieldCache, allocated, computed, resolved>>

\* the deferred middleValueListPool.Put(l), then the return or the panic
Release(p) ==
  /\ call[p].pc = "put"
  /\ pool' = pool \cup {call[p].l}
  /\ call' = [call EXCEPT ![p].pc = "done",
                          ![p].ret = IF call[p].panicking THEN "panic" ELSE "nil"]
  /\ UNCHANGED <<stack, encoderCache, fieldCache, allocated, computed, resolved>>

\* the caller, whose Convert(&V, &d) into a fresh d returned nil, calls
\* Convert(&d, &d2) with a fresh d2 of d's type
Again(p) ==
  /\ call[p].pc = "done" /\ call[p].round = 1 /\ call[p].ret = "nil"
  /\ Fresh(Args(call[p]))
  /\ call' = [call EXCEPT ![p] = [NewCall(call[p].dest, call[p].dest0) EXCEPT !.round = 2]]
  /\ UNCHANGED <<stack, pool, encoderCache, fieldCache, allocated, computed, resolved>>

\* a call of one of the helpers, about to run
NewHelperCall(fn, i, opts) ==
  [pc |-> "helper", fn |-> fn, i |-> i, opts |-> opts, out |-> [pending |-> TRUE]]

\* the helper runs and returns, or panics
HelperReturn(p) ==
  /\ call[p].pc = "helper"
  /\ call' = [call EXCEPT ![p].pc = "returned",
                          ![p].out = Helper(call[p].fn, call[p].i, call[p].opts)]
  /\ UNCHANGED <<stack, pool, encoderCache, fieldCache, allocated, computed, resolved>>

(* ---------------------------- specifications --------------------------- *)
NoCache == [t \in {} |-> Placeholder("p1")]
NoCallers == [t \in {} |-> <<>>]

\* one caller, every input
Init ==
  /\ \E in \in Inputs : call = [p \in {"p1"} |-> NewCall(in.src, in.dest)]
  /\ stack = [p \in {"p1"} |-> <<>>]
  /\ pool = {}
  /\ encoderCache = NoCache
  /\ fieldCache = NoCache
  /\ allocated = 0
  /\ computed = NoCallers
  /\ resolved = NoCallers

Step(p) ==
  \E of \in {ConversionOf} :
  \/ ConvertStart(p)
  \/ Checkout(p, of)
  \/ RequestEncoder(p)
  \/ TypeEncoderLoad(p)
  \/ TypeEncoderLoadOrStore(p)
  \/ TypeEncoderCompute(p)
  \/ NewTypeEncoderEnter(p)
  \/ NewTypeEncoderReturn(p)
  \/ TypeEncoderDone(p)
  \/ TypeEncoderStore(p)
  \/ CachedTypeFieldsLoad(p)
  \/ TypeFieldsEncoders(p)
  \/ CachedTypeFieldsLoadOrStore(p)
  \/ Encode(p, of)
  \/ RequestFields(p)
  \/ Materialize(p, of)
  \/ Release(p)

Next == Step("p1")

Spec == Init /\ [][Next]_vars

\* one caller that converts the result of its call once more
NextAgain == Step("p1") \/ Again("p1")

SpecAgain == Init /\ [][NextAgain]_vars

\* one call of a helper
InitHelper ==
  /\ \E fn \in {"ToString", "ToInt64E", "ToDurationE", "ToTimeE",
                 "To[time.Duration]", "To[time.Time]"} :
     \E i \in HelperInputs :
     \E opts \in HelperOptions :
        /\ fn \in {"ToString", "ToInt64E"} => opts = <<>>
        /\ call = [p \in {"p1"} |-> NewHelperCall(fn, i, opts)]
  /\ stack = [p \in {"p1"} |-> <<>>]
  /\ pool = {}
  /\ encoderCache = NoCache
  /\ fieldCache = NoCache
  /\ allocated = 0
  /\ computed = NoCallers
  /\ resolved = NoCallers

NextHelper == HelperReturn("p1")

SpecHelper == InitHelper /\ [][NextHelper]_vars

(* ----------------------- makeValue, step by step ----------------------- *)
\* The walk of makeValue over variables that may point at one another. A
\* heap is a sequence of variables, heap[a] the variable at address a: t is
\* its type; a pointer variable points to the variable at address `ref`
\* (0: nil); an interface variable holds a value of type dt ("": nil),
\* a pointer to `ref` when dt is a pointer type.
Variable(t, dt, ref) == [t |-> t, dt |-> dt, ref |-> ref]

\* the types of the variables, and the types an interface variable holds
HeapTypes == {"int", "*int", "any", "*any", "**any"}
DynTypes == HeapTypes \ {"any"}

\* a reflect.Value: the variable at address addr, which is addressable, or
\* (addr = 0) a value of type t that sits in no variable, as
\* reflect.ValueOf(dest) and what Elem takes out of an interface
InVariable(a) == [addr |-> a, t |-> "", ref |-> 0]
Loose(t, ref) == [addr |-> 0, t |-> t, ref |-> ref]
NoValue == Loose("invalid", 0)

\* v.Kind(), v.IsNil() and v.Elem() on heap h
KindIn(h, v) ==
  IF v = NoValue THEN "invalid" ELSE Kind(IF v.addr # 0 THEN h[v.addr].t ELSE v.t)
IsNilIn(h, v) ==
  IF KindIn(h, v) = "iface" THEN h[v.addr].dt = ""
  ELSE IF v.addr # 0 THEN h[v.addr].ref = 0 ELSE v.ref = 0
ElemIn(h, v) ==
  IF IsNilIn(h, v) THEN NoValue
  ELSE IF KindIn(h, v) = "iface" THEN Loose(h[v.addr].dt, h[v.addr].ref)
  ELSE InVariable(IF v.addr # 0 THEN h[v.addr].ref ELSE v.ref)

\* One iteration of makeValue's loop on v: the heap and the value after it,
\* and how it ended: "continue", "break", or "panic" where v.Set is called
\* on a value that is not addressable.
makeValueIteration(h, v) ==
  LET e == ElemIn(h, v)
      fresh == Len(h) + 1
      zero == Variable(Types[h[v.addr].t].elem, "", 0)
      set == Append([h EXCEPT ![v.addr].ref = fresh], zero)
      ended(how, heap, value) == [how |-> how, heap |-> heap, v |-> value]
  IN IF /\ KindIn(h, v) = "iface" /\ ~IsNilIn(h, v)
        /\ KindIn(h, e) = "ptr" /\ ~IsNilIn(h, e) /\ KindIn(h, ElemIn(h, e)) = "ptr"
     THEN ended("continue", h, e)
     ELSE IF KindIn(h, v) # "ptr" THEN ended("break", h, v)
     ELSE IF KindIn(h, e) = "iface" /\ ElemIn(h, e) = v THEN ended("break", h, e)
     ELSE IF ~IsNilIn(h, v) THEN ended("continue", h, e)
     ELSE IF v.addr = 0 THEN ended("panic", h, v)
     ELSE ended("continue", set, InVariable(fresh))

\* the variables of type t that a heap of types ts can hold, and the heaps
\* whose first k variables have the types ts[1..k]
PointingTo(ts, t) == {0} \cup {a \in DOMAIN ts : ts[a] = Types[t].elem}
VariablesOf(ts, t) ==
  IF Kind(t) = "ptr" THEN {Variable(t, "", ref) : ref \in PointingTo(ts, t)}
  ELSE IF Kind(t) # "iface" THEN {Variable(t, "", 0)}
  ELSE {Variable(t, "", 0), Variable(t, "int", 0)}
       \cup UNION {{Variable(t, dt, ref) : ref \in PointingTo(ts, dt)} :
                      dt \in {d \in DynTypes : Kind(d) = "ptr"}}
RECURSIVE HeapsOver(_, _)
HeapsOver(ts, k) ==
  IF k = 0 THEN {<<>>}
  ELSE {Append(h, x) : h \in HeapsOver(ts, k - 1), x \in VariablesOf(ts, ts[k])}
Heaps(n) == UNION {HeapsOver(ts, n) : ts \in [1..n -> HeapTypes]}

\* the number of variables of the heaps
MaxVars == 3

\* makeValue(reflect.ValueOf(dest)) with dest the address of the first
\* variable: pc is "loop" while the loop runs, then "return" or "panic";
\* heap0 is the heap at the call
NewMakeValue(h) ==
  [pc |-> "loop", heap0 |-> h, heap |-> h, v |-> Loose(PtrType(h[1].t), 1)]

MakeValueLoop(p) ==
  /\ call[p].pc = "loop"
  /\ LET c == call[p]
         it == makeValueIteration(c.heap, c.v)
     IN call' = [call EXCEPT ![p] =
                   [c EXCEPT !.pc = CASE it.how = "continue" -> "loop"
                                      [] it.how = "break" -> "return"
                                      [] OTHER -> "panic",
                             !.heap = it.heap, !.v = it.v]]
  /\ UNCHANGED <<stack, pool, encoderCache, fieldCache, allocated, computed, resolved>>

InitMake ==
  /\ \E h \in Heaps(MaxVars) :
        /\ h[1].t # "**any"
        /\ call = [p \in {"p1"} |-> NewMakeValue(h)]
  /\ stack = [p \in {"p1"} |-> <<>>]
  /\ pool = {}
  /\ encoderCache = NoCache
  /\ fieldCache = NoCache
  /\ allocated = 0
  /\ computed = NoCallers
  /\ resolved = NoCallers

NextMake == MakeValueLoop("p1")

SpecMake == InitMake /\ [][NextMake]_vars /\ WF_vars(NextMake)

(* ------------------------- concurrent callers -------------------------- *)
\* the callers of Procs, each with one call, on cold caches and an empty
\* pool
InitConc ==
  /\ call \in [Procs -> {NewCall(in.src, in.dest) : in \in ConcInputs}]
  /\ stack = [p \in Procs |-> <<>>]
  /\ pool = {}
  /\ encoderCache = NoCache
  /\ fieldCache = NoCache
  /\ allocated = 0
  /\ computed = NoCallers
  /\ resolved = NoCallers

NextConc == \E p \in Procs : Step(p)

\* every goroutine that can take a step is scheduled in the end
SpecConc == InitConc /\ [][NextConc]_vars /\ \A p \in Procs : WF_vars(Step(p))

(* ------------------------- properties of Convert ----------------------- *)
Finished(p) == call[p].pc = "done"

\* reflect.DeepEqual on values of one type: a nil slice, map or pointer
\* differs from an empty or allocated one; a map's entries compare as a set
RECURSIVE DeepEqual(_, _)
DeepEqual(a, b) ==
  /\ a.t = b.t
  /\ LET k == KindOf(a) IN
     CASE k \in {"ptr", "iface"} ->
            a.nil = b.nil /\ (~a.nil => DeepEqual(a.elem, b.elem))
       [] k = "slice" ->
            /\ a.nil = b.nil /\ Len(a.elems) = Len(b.elems)
            /\ \A i \in 1..Len(a.elems) : DeepEqual(a.elems[i], b.elems[i])
       [] k = "array" -> \A i \in 1..Len(a.elems) : DeepEqual(a.elems[i], b.elems[i])
       [] k = "map" ->
            /\ a.nil = b.nil /\ Len(a.ents) = Len(b.ents)
            /\ \A i \in 1..Len(a.ents) : \E j \in 1..Len(b.ents) :
                 a.ents[i].key = b.ents[j].key /\ DeepEqual(a.ents[i].val, b.ents[j].val)
       [] k = "struct" -> \A i \in 1..Len(a.fields) : DeepEqual(a.fields[i], b.fields[i])
       [] OTHER -> a = b

\* types built from exported struct fields, scalars, pointers, slices,
\* arrays, string-keyed maps and interface values
RoundTripTypes ==
  { "int", "string", "any", "[]int", "[2]int", "map[string]int",
    "Person", "Plain", "Empty", "HP", "HS", "HA", "HM", "HI", "Node" }

\* the call is Convert(&V, &d), V and the fresh zero d of one type of
\* RoundTripTypes
IsRoundTrip(c) ==
  /\ KindOf(c.src) = "ptr" /\ ~c.src.nil
  /\ c.src.elem.t \in RoundTripTypes
  /\ c.dest0 = PtrV(c.src.t, Zero(c.src.elem.t))

\* C1: round trip.  Whenever Convert(&V, &d) has returned, d a fresh zero
\* value of V's type T (T built from exported struct fields, scalars,
\* pointers, slices, arrays, string-keyed maps and interfaces), it has
\* returned nil and d is deeply equal to V.
C1_RoundTrip ==
  \A p \in Callers :
     Finished(p) /\ IsRoundTrip(call[p]) =>
        call[p].ret = "nil" /\ DeepEqual(call[p].dest, call[p].src)

\* C2: Convert never panics.  Whatever the source and the destination
\* argument, no call ends in a panic: it returns nil or the error.
C2_NeverPanics == \A p \in Callers : call[p].ret # "panic"

\* the destination argument is nil, is not a pointer, or is a nil pointer
BadDestination(d) == d.t = "invalid" \/ Types[d.t].kind # "ptr" \/ d.nil

\* C3: Convert returns the error only if the destination argument is nil,
\* not a pointer or a nil pointer, and the step that returns it mutates
\* nothing: the destination, the pool and both caches are as before.
C3_ErrorOnlyForBadDestination ==
  [][\A p \in Callers :
       call'[p].ret = "error" /\ call[p].ret # "error" =>
          /\ BadDestination(call[p].dest0)
          /\ call[p].pc = "start"
          /\ call'[p].dest = call[p].dest0 /\ call'[p].l = NoArena
          /\ UNCHANGED <<pool, encoderCache, fieldCache, allocated>>]_vars

\* a call has returned the error
C3_ErrorReturned ==
  \E p \in Callers : call[p].ret = "error" /\ call[p].dest0 = NilPtr("*Person")

\* untyped nil, or a nil pointer, map or slice (a nil interface reaches
\* Convert as untyped nil)
AbsentSource(v) == v.t = "invalid" \/ (Types[v.t].kind \in {"ptr", "map", "slice"} /\ v.nil)

\* C4: with an absent source Convert is a no-op for every destination
\* argument, a nil or non-pointer one included: it checks out no arena,
\* leaves the destination as it is and returns nil.
C4_AbsentSourceNoOp ==
  \A p \in Callers :
     AbsentSource(call[p].src) =>
        /\ call[p].l = NoArena /\ allocated = 0
        /\ call[p].dest = call[p].dest0
        /\ call[p].pc \in {"start", "done"}
        /\ Finished(p) => call[p].ret = "nil"

\* a call with a nil source and a destination that is no pointer has
\* returned
C4_AbsentSourceBadDestination ==
  \E p \in Callers :
     /\ Finished(p) /\ call[p].src = NilPtr("*Person")
     /\ call[p].dest0 = Zero("Person") /\ call[p].ret = "nil"

(* ----------------------- properties of struct fields ------------------- *)
\* the call converts the struct *src into the struct *dest
SrcStruct(c) == KindOf(c.src) = "ptr" /\ ~c.src.nil /\ KindOf(c.src.elem) = "struct"
DestStruct(c) == KindOf(c.dest0) = "ptr" /\ ~c.dest0.nil /\ KindOf(c.dest0.elem) = "struct"

\* the source of call p has been encoded into its arena
Encoded(p) == call[p].pc \in {"materialize", "put", "done"} /\ call[p].l # NoArena

\* the children of the root node of call p's arena
RootChildren(p) == Children(call[p].l.List, call[p].l.List[1])
ChildNames(p) == {RootChildren(p)[i].Name : i \in 1..Len(RootChildren(p))}

\* the effective names of struct type t
PlanNames(t) == {FieldPlan[t].list[i].name : i \in 1..Len(FieldPlan[t].list)}
\* the field of t with effective name n
PlanField(t, n) == FieldPlan[t].list[FieldPlan[t].byExactName[n]]

\* the value at the end of the access path index from v: pointers on the
\* path are followed, and there is no value behind a nil one
RECURSIVE ReadAt(_, _)
ReadAt(v, index) ==
  IF index = <<>> THEN [ok |-> TRUE, v |-> v]
  ELSE IF KindOf(v) = "ptr" THEN IF v.nil THEN [ok |-> FALSE] ELSE ReadAt(v.elem, index)
  ELSE ReadAt(v.fields[Head(index) + 1], Tail(index))

\* the value of field f of struct v: the zero value when the path to it
\* crosses a nil pointer
FieldValue(v, f) == IF ReadAt(v, f.index).ok THEN ReadAt(v, f.index).v ELSE Zero(f.typ)

\* C5: partial overlap.  When Convert(&s, &d) has returned, s and d structs
\* of different types, it has returned nil; a field of d whose effective
\* name is the effective name of no field of s has the value it had
\* before, and a field of d whose effective name and type are those of a
\* field of s has that field's value.
C5_PartialOverlap ==
  \A p \in Callers :
     (/\ Finished(p) /\ SrcStruct(call[p]) /\ DestStruct(call[p])
      /\ call[p].src.elem.t # call[p].dest0.elem.t) =>
        LET S == call[p].src.elem.t
            D == call[p].dest0.elem.t
        IN /\ call[p].ret = "nil"
           /\ \A n \in PlanNames(D) \ PlanNames(S) :
                 FieldValue(call[p].dest.elem, PlanField(D, n))
                    = FieldValue(call[p].dest0.elem, PlanField(D, n))
           /\ \A n \in PlanNames(D) \cap PlanNames(S) :
                 (/\ PlanField(D, n).typ = PlanField(S, n).typ
                  /\ Kind(PlanField(D, n).typ) \in ScalarKinds
                  /\ ReadAt(call[p].src.elem, PlanField(S, n).index).ok) =>
                    FieldValue(call[p].dest.elem, PlanField(D, n))
                       = FieldValue(call[p].src.elem, PlanField(S, n))

\* the direct fields of struct type t that carry a rename tag: the
\* positions i with a tag name other than "" and "-" that the code accepts
Renamed(t) ==
  {i \in 1..NumField(t) :
     /\ Types[t].fields[i].exported /\ Types[t].fields[i].tag # <<>>
     /\ Types[t].fields[i].tag[1] \notin {"", "-"} \cup ReservedCharNames}
RenameTag(t, i) == Types[t].fields[i].tag[1]
\* the declared identifiers of t that are not the key of some field of t
UnusedIdentifiers(t) ==
  {Types[t].fields[i].name : i \in Renamed(t)}
    \ ({RenameTag(t, i) : i \in Renamed(t)}
         \cup {Types[t].fields[i].name : i \in (1..NumField(t)) \ Renamed(t)})

\* the children of the root of p's arena with key n
Keyed(p, n) == {i \in 1..Len(RootChildren(p)) : RootChildren(p)[i].Name = n}

RECURSIVE Candidates(_, _)
Candidates(t, path) ==
  UNION {
    LET sf == Types[t].fields[i]
        pointee == IF Types[sf.typ].kind = "ptr" THEN Types[sf.typ].elem ELSE sf.typ
        named == sf.tag # <<>> /\ sf.tag[1] \notin {"", "-"} \cup ReservedCharNames
    IN IF \/ sf.tag = <<"-">>
          \/ ~sf.exported /\ ~(sf.anon /\ Types[pointee].kind = "struct")
       THEN {}
       ELSE IF sf.anon /\ ~named /\ Types[pointee].kind = "struct"
       THEN Candidates(pointee, path \o <<i - 1>>)
       ELSE {[name |-> IF named THEN sf.tag[1] ELSE sf.name, tagged |-> named,
              index |-> path \o <<i - 1>>]}
    : i \in 1..Len(Types[t].fields)}

\* the candidates of t with effective name n at the shallowest depth where
\* n occurs
Shallowest(t, n) ==
  LET C == {c \in Candidates(t, <<>>) : c.name = n}
  IN {c \in C : \A d \in C : Len(c.index) <= Len(d.index)}

\* the candidates of t that win their name: alone at the shallowest depth,
\* or the only tagged one there
Winners(t) ==
  {c \in Candidates(t, <<>>) :
     /\ c \in Shallowest(t, c.name)
     /\ \/ Cardinality(Shallowest(t, c.name)) = 1
        \/ c.tagged /\ \A d \in Shallowest(t, c.name) : d.tagged => d = c}

\* the candidates of t whose name nobody wins
Ambiguous(t) ==
  {c \in Candidates(t, <<>>) : \A w \in Winners(t) : w.name # c.name}

\* the fields of a plan, as candidates
PlanCandidates(plan) ==
  {[name |-> plan.list[i].name, tagged |-> plan.list[i].tag, index |-> plan.list[i].index]
     : i \in 1..Len(plan.list)}

\* C7: tie-break at equal minimal depth.  The FieldPlan stored for a struct
\* type holds, for each effective name, the candidate that is alone at the
\* shallowest depth of the name or the only tagged one there, and nothing
\* for a name with two or more candidates there of which none or several
\* are tagged; the encoder emits no child with such a name, and the
\* materializer leaves every field that is a candidate of such a name as
\* it was.
C7_TieBreak ==
  /\ \A t \in DOMAIN fieldCache :
        /\ PlanCandidates(fieldCache[t]) = Winners(t)
        /\ Len(fieldCache[t].list) = Cardinality(Winners(t))
  /\ \A p \in Callers :
        /\ (Encoded(p) /\ SrcStruct(call[p])) =>
              ChildNames(p) = {w.name : w \in Winners(call[p].src.elem.t)}
        /\ (Finished(p) /\ DestStruct(call[p])) =>
              \A c \in Ambiguous(call[p].dest0.elem.t) :
                 ReadAt(call[p].dest.elem, c.index) = ReadAt(call[p].dest0.elem, c.index)

\* a Three value, whose tagged X wins over two untagged ones, has been
\* converted into a used Amb value, where two untagged X tie
C7_TaggedWinsAndTieDropped ==
  \E p \in Callers :
     /\ Finished(p) /\ call[p].ret = "nil"
     /\ SrcStruct(call[p]) /\ DestStruct(call[p])
     /\ call[p].src.elem.t = "Three" /\ call[p].dest0.elem.t = "Amb"
     /\ "X" \in ChildNames(p)
     /\ call[p].dest0.elem # Zero("Amb")
     /\ {"Three", "Amb"} \subseteq DOMAIN fieldCache

\* the plan fields of struct v that are a nil pointer or lie behind one
NilFields(v) ==
  {j \in 1..Len(FieldPlan[v.t].list) :
     LET r == ReadAt(v, FieldPlan[v.t].list[j].index)
     IN ~r.ok \/ (KindOf(r.v) = "ptr" /\ r.v.nil)}

\* C8: nil-safety.  For a source struct field that is a nil pointer or
\* lies behind one, the encoder writes a Null child with the field's name;
\* Convert returns nil, and the destination field of that name has the
\* value it had before the call (the zero value where the destination had
\* no such field yet).
C8_NilSafety ==
  \A p \in Callers :
     (Encoded(p) /\ SrcStruct(call[p])) =>
        \A j \in NilFields(call[p].src.elem) :
           LET f == FieldPlan[call[p].src.elem.t].list[j] IN
           /\ RootChildren(p)[j].Type = NilValueType
           /\ RootChildren(p)[j].Name = f.name
           /\ (Finished(p) /\ DestStruct(call[p])
                 /\ f.name \in PlanNames(call[p].dest0.elem.t)) =>
                 FieldValue(call[p].dest.elem, PlanField(call[p].dest0.elem.t, f.name))
                   = FieldValue(call[p].dest0.elem, PlanField(call[p].dest0.elem.t, f.name))
           /\ Finished(p) => call[p].ret = "nil"

\* a struct whose field is a nil pointer has been converted into a used
\* struct of its type, which is as it was
C8_NilFieldConverted ==
  \E p \in Callers :
     /\ Finished(p) /\ call[p].ret = "nil"
     /\ call[p].src = PtrV("*HP", Zero("HP"))
     /\ call[p].dest0 = PtrV("*HP", Preset("HP", 1))
     /\ call[p].dest = call[p].dest0

(* ---------------------- properties of the planner ---------------------- *)
\* the values a chain of Nodes carries, in order
RECURSIVE ChainVals(_)
ChainVals(ptr) ==
  IF ptr.nil THEN <<>> ELSE <<ptr.elem.fields[1].v>> \o ChainVals(ptr.elem.fields[2])

\* the call converts a chain of Nodes into a Node
IsChain(c) == c.src = Chain(MaxChain) /\ c.dest0.t = "*Node"

\* C9: self-reference.  With concurrent callers that need the encoder of
\* the self-referential type Node, every call returns in the end (no
\* caller is left waiting for an encoder), and a call that has converted a
\* chain of MaxChain = 3 Nodes has returned nil and left a chain of as many
\* Nodes with the same values in the same order, ending in a nil pointer.
C9_SelfReference ==
  /\ <>(\A p \in Callers : Finished(p) /\ stack[p] = <<>>)
  /\ [](\A p \in Callers :
          (Finished(p) /\ IsChain(call[p])) =>
             /\ call[p].ret = "nil"
             /\ ChainVals(call[p].dest) = ChainVals(call[p].src)
             /\ Len(ChainVals(call[p].dest)) = MaxChain)

\* a caller has converted the chain with the encoder of Node that the
\* other caller computed
C9_ChainConverted ==
  \E p, q \in Callers :
     /\ p # q /\ Finished(p) /\ IsChain(call[p])
     /\ Len(ChainVals(call[p].dest)) = MaxChain
     /\ "Node" \in DOMAIN computed /\ computed["Node"] = <<q>>

\* C10: under any interleaving newTypeEncoder runs at most once for a
\* type, by the caller whose LoadOrStore stored the placeholder, and once
\* every call has returned it has run exactly once for every type in the
\* cache: no other caller computes.
C10_ComputedOnce ==
  /\ \A t \in DOMAIN computed :
        /\ Len(computed[t]) = 1
        /\ t \in DOMAIN encoderCache /\ encoderCache[t].by = computed[t][1]
  /\ (\A p \in Callers : Finished(p)) => DOMAIN encoderCache = DOMAIN computed

\* a caller that missed the type in its Load is about to LoadOrStore while
\* the other caller has already stored the placeholder and is computing
C10_SecondCallerLoses ==
  \E p, q \in Callers :
     /\ p # q /\ Running(p, "typeEncoder", "loadOrStore")
     /\ Top(p).t \in DOMAIN computed /\ computed[Top(p).t] = <<q>>
     /\ ~encoderCache[Top(p).t].ready

(* ----------------------- properties of the arena pool ------------------ *)
\* caller p is between newMiddleValueList and the deferred Put
Held(p) == call[p].pc \in {"encode", "materialize", "put"}

\* C11: the arena an in-flight Convert holds is held by no other in-flight
\* Convert and does not rest in the pool, so its nodes are read and written
\* by its holder alone.
C11_ArenaExclusivity ==
  \A p \in Callers :
    Held(p) =>
      /\ call[p].l # NoArena
      /\ \A q \in Callers \ {p} : Held(q) => call[q].l.id # call[p].l.id
      /\ \A a \in pool : a.id # call[p].l.id

\* two calls in flight at once, each on an arena of its own
C11_TwoInFlight ==
  \E p \in Callers : \E q \in Callers \ {p} :
    Held(p) /\ Held(q) /\ call[p].l.List # <<ZeroMV>> /\ call[q].l.List # <<ZeroMV>>

\* C12: a call that checked out an arena has put it back when it ends,
\* with a nil result and with a panic alike, and the pool gains an arena
\* only by the one Put of the call that holds it; a call that ends before
\* the checkout never holds an arena and puts none.
C12_GuaranteedRelease ==
  /\ [](\A p \in Callers :
         /\ Finished(p) /\ call[p].l # NoArena =>
              \/ \E a \in pool : a.id = call[p].l.id
              \/ \E q \in Callers \ {p} : Held(q) /\ call[q].l.id = call[p].l.id
         /\ Finished(p) /\ call[p].ret \in {"error"} => call[p].l = NoArena
         /\ call[p].pc \in {"start", "checkout"} => call[p].l = NoArena)
  /\ [][\A a \in pool' \ pool :
          \E p \in Callers : /\ call[p].pc = "put" /\ call'[p].pc = "done"
                             /\ a = call[p].l
                             /\ pool' = pool \cup {a}
                             /\ \A b \in pool : b.id # a.id]_vars

\* a call that panicked while materializing has ended and its arena rests
\* in the pool
C12_ReleasedAfterPanic ==
  \E p \in Callers :
    /\ Finished(p) /\ call[p].ret = "panic" /\ call[p].l # NoArena
    /\ call[p].l \in pool

(* ---------------------- properties of repeated calls ------------------- *)
\* C13: idempotence.  When Convert(&V, &d) into a fresh d of type T has
\* returned nil, the call Convert(&d, &d2) into a fresh d2 of type T, once
\* it has returned, has returned nil and d2 is deeply equal to d.
C13_Idempotence ==
  \A p \in Callers :
    Finished(p) /\ call[p].round = 2 =>
      /\ call[p].ret = "nil"
      /\ DeepEqual(call[p].dest.elem, call[p].src.elem)

(* ---------------------- properties of the two paths -------------------- *)
\* struct types whose fields all carry a json name tag
TaggedTypes == {"Tweet"}

\* C14: FAST agrees with the JSON path.  For src a non-nil pointer to a
\* struct of a type whose fields carry json name tags and a fresh
\* destination of that type, FAST.Convert returns nil, and its destination
\* after JSON normalization equals the normalized destination of
\* json.Marshal and json.Unmarshal of the same source.
C14_AgreesWithJSON ==
  \A p \in Callers :
    /\ Finished(p) /\ call[p].round = 1 /\ Fresh(Args(call[p]))
    /\ call[p].src.elem.t \in TaggedTypes /\ call[p].dest0.t = call[p].src.t
    => /\ call[p].ret = "nil"
       /\ DeepEqual(Normalize(call[p].dest.elem),
                    Normalize(JSONConvert(call[p].src, call[p].dest0).elem))

(* ------------------ properties of the coercion helpers ----------------- *)
\* i is the nil interface or a nil pointer, slice or map
NilArgument(i) ==
  \/ i.t = "invalid"
  \/ i.t = "*time.Time" /\ i.nil
  \/ i.t \in TypeNames /\ Kind(i.t) \in {"ptr", "slice", "map"} /\ i.nil

\* C15: ToString never panics, and for the nil interface and for every nil
\* pointer, nil slice and nil map, whatever its type, it returns "".
C15_ToStringOfNil ==
  \A p \in Callers :
    call[p].pc = "returned" /\ call[p].fn = "ToString" =>
      /\ ~call[p].out.panic
      /\ NilArgument(call[p].i) => call[p].out.v = ""

\* C16: ToInt64E, ToDurationE and ToTimeE are total: for every input, a
\* typed nil pointer included, the call returns, with a value and a nil
\* error or with a non-nil error, and does not panic; the result is the
\* one the helper gives for that input wherever it is called.
C16_HelpersTotal ==
  \A p \in Callers :
    call[p].pc = "returned" /\ call[p].fn \in {"ToInt64E", "ToDurationE", "ToTimeE"} =>
      /\ ~call[p].out.panic
      /\ call[p].out = Helper(call[p].fn, call[p].i, call[p].opts)

(* --------------------- properties of the materializer ------------------ *)
\* call p has returned nil after materializing a Keyed root node into a
\* destination &m, m a map with string keys
KeyedIntoMap(p) ==
  /\ Finished(p) /\ call[p].ret = "nil" /\ call[p].l # NoArena
  /\ call[p].l.List[1].Type = MapValueType
  /\ KindOf(call[p].dest0) = "ptr" /\ KindOf(call[p].dest0.elem) = "map"
  /\ Kind(Types[call[p].dest0.elem.t].key) = "string"

\* C17: a Keyed node materialized into a string-keyed map leaves, for each
\* child, an entry under the child's own key that holds the materialized
\* child (the last child of a key wins), and keeps the entries the map held
\* under other keys.
C17_MapEntriesUnderOwnKeys ==
  \A p \in Callers :
    KeyedIntoMap(p) =>
      LET kids == RootChildren(p)
          before == call[p].dest0.elem.ents
          after == call[p].dest.elem.ents
      IN /\ \A i \in 1..Len(kids) :
              (\A j \in (i + 1)..Len(kids) : kids[j].Name # kids[i].Name) =>
                 \E k \in 1..Len(after) :
                    /\ after[k].key = ScalarV("string", kids[i].Name)
                    /\ after[k].val =
                         fromMiddleValue(call[p].l.List, kids[i],
                            Loc(Zero(Types[call[p].dest0.elem.t].elem), TRUE, FALSE)).v
         /\ \A k0 \in 1..Len(before) :
              before[k0].key.v \notin ChildNames(p) =>
                 \E k \in 1..Len(after) : after[k] = before[k0]

\* the map that call p converts: its source, or what its source points to
SrcMap(c) == IF KindOf(c.src) = "ptr" /\ ~c.src.nil THEN c.src.elem ELSE c.src

\* the entries of map m that the encoder encodes: those with a string key
StringKeyed(m) == {i \in 1..Len(m.ents) : KindOf(m.ents[i].key) = "string"}

\* C18: entries whose key is not of string kind leave no trace.  Once a map
\* is encoded, its Keyed node has as many children as entries were encoded
\* and each child carries the key of an encoded entry; and when the call
\* has returned nil, a dynamically typed destination holds a map of just
\* those entries, and a map destination gains no entry when none was encoded.
C18_SkippedEntriesLeaveNoTrace ==
  \A p \in Callers :
    (Encoded(p) /\ KindOf(SrcMap(call[p])) = "map") =>
      LET m == SrcMap(call[p])
          kids == RootChildren(p)
          d0 == call[p].dest0.elem
          d == call[p].dest.elem
      IN /\ Len(kids) = Cardinality(StringKeyed(m))
         /\ \A c \in 1..Len(kids) : \E i \in StringKeyed(m) : kids[c].Name = m.ents[i].key.v
         /\ (Finished(p) /\ call[p].ret = "nil" /\ d0 = NilPtr("any")) =>
               Len(d.elem.ents) = Cardinality(StringKeyed(m))
         /\ (/\ Finished(p) /\ call[p].ret = "nil" /\ KindOf(d0) = "map"
             /\ StringKeyed(m) = {} /\ ~d0.nil) => d = d0

\* call p has returned nil after materializing a Keyed root node into a
\* destination &d, d a struct
KeyedIntoStruct(p) ==
  /\ Finished(p) /\ call[p].ret = "nil" /\ call[p].l # NoArena
  /\ call[p].l.List[1].Type = MapValueType /\ DestStruct(call[p])

\* the children of p's root that fromMapToStruct finds a field for, and
\* those of them that are Null
Matching(p) ==
  {c \in 1..Len(RootChildren(p)) : RootChildren(p)[c].Name \in PlanNames(call[p].dest0.elem.t)}
NullMatching(p) == {c \in Matching(p) : RootChildren(p)[c].Type = NilValueType}

\* the field of the destination struct for child c, and whether the
\* pointer at the end of the first k steps of its access path is nil in v
FieldOfChild(p, c) == PlanField(call[p].dest0.elem.t, RootChildren(p)[c].Name)
NilAt(v, index, k) ==
  /\ ReadAt(v, SubSeq(index, 1, k)).ok
  /\ KindOf(ReadAt(v, SubSeq(index, 1, k)).v) = "ptr"
  /\ ReadAt(v, SubSeq(index, 1, k)).v.nil

\* C19: a Null child changes nothing in a struct destination.  A struct
\* all of whose matching children are Null is as it was before the call,
\* and a nil pointer on the access path of a Null child's field, which no
\* other matching child's path crosses, is still nil afterwards.
C19_NullLeavesStructUntouched ==
  \A p \in Callers :
    KeyedIntoStruct(p) =>
      /\ Matching(p) = NullMatching(p) => call[p].dest.elem = call[p].dest0.elem
      /\ \A c \in NullMatching(p) :
           \A k \in 1..(Len(FieldOfChild(p, c).index) - 1) :
              (/\ NilAt(call[p].dest0.elem, FieldOfChild(p, c).index, k)
               /\ \A c2 \in Matching(p) \ NullMatching(p) :
                    \/ Len(FieldOfChild(p, c2).index) < k
                    \/ SubSeq(FieldOfChild(p, c2).index, 1, k)
                         # SubSeq(FieldOfChild(p, c).index, 1, k))
              => NilAt(call[p].dest.elem, FieldOfChild(p, c).index, k)

\* node n does not fit a destination location of type t: a Scalar of a
\* type that cannot be assigned to t, a List where t is no slice, array or
\* interface, a Keyed node where t is a scalar or a map without string keys
Mismatch(n, t) ==
  \/ n.Type = ValueValueType /\ Kind(t) # "ptr" /\ ~Assignable(n.Value.t, t)
  \/ n.Type = SliceValueType /\ Kind(t) \notin {"slice", "array", "iface", "ptr"}
  \/ n.Type = MapValueType
       /\ \/ Kind(t) \in ScalarKinds
          \/ Kind(t) = "map" /\ Kind(Types[t].key) # "string"

\* the matching children of p's root that are Scalars for a field reached
\* without a pointer: those that fit the field and those that do not
ScalarFit(p) ==
  {c \in Matching(p) :
     /\ RootChildren(p)[c].Type = ValueValueType
     /\ Len(FieldOfChild(p, c).index) = 1
     /\ ~Mismatch(RootChildren(p)[c], FieldOfChild(p, c).typ)}
ScalarMisfit(p) ==
  {c \in Matching(p) :
     /\ RootChildren(p)[c].Type = ValueValueType
     /\ Len(FieldOfChild(p, c).index) = 1
     /\ Kind(FieldOfChild(p, c).typ) \in ScalarKinds
     /\ Mismatch(RootChildren(p)[c], FieldOfChild(p, c).typ)}

\* C20: structural mismatches resolve permissively.  When the root node
\* does not fit the destination, the call returns nil and the destination
\* is as it was; when a Scalar child does not fit its field of a struct
\* destination, the call returns nil, that field is as it was and the
\* Scalar children that fit their fields have been assigned.
C20_MismatchLeftUnchanged ==
  \A p \in Callers :
    (Finished(p) /\ call[p].l # NoArena) =>
      /\ Mismatch(call[p].l.List[1], call[p].dest0.elem.t) =>
            call[p].ret = "nil" /\ call[p].dest = call[p].dest0
      /\ (/\ call[p].l.List[1].Type = MapValueType /\ DestStruct(call[p])
          /\ ScalarMisfit(p) # {}) =>
            /\ call[p].ret = "nil"
            /\ \A c \in ScalarMisfit(p) :
                 FieldValue(call[p].dest.elem, FieldOfChild(p, c))
                   = FieldValue(call[p].dest0.elem, FieldOfChild(p, c))
            /\ \A c \in ScalarFit(p) :
                 FieldValue(call[p].dest.elem, FieldOfChild(p, c)) = RootChildren(p)[c].Value

(* --------------------------- the field planner -------------------------- *)
\* C21: single computation of a FieldPlan.  typeFields has been entered at
\* most once for every struct type, whatever the interleaving of the
\* callers and whether the type is first met as a source or as a
\* destination type, and the plan the cache holds for a type is the one
\* typeFields returns for it.
C21_PlanComputedOnce ==
  /\ \A t \in DOMAIN resolved : Len(resolved[t]) <= 1
  /\ \A t \in DOMAIN fieldCache : fieldCache[t] = FieldPlan[t]

\* the list is in ascending order of effective name
SortedByName(list) ==
  \A i, j \in 1..Len(list) : i < j => ~StringLess(list[j].name, list[i].name)

\* the exact-name map has one entry for each element of the list, which
\* points at that element
OneEntryEach(plan) ==
  /\ Cardinality(DOMAIN plan.byExactName) = Len(plan.list)
  /\ \A i \in 1..Len(plan.list) :
        /\ plan.list[i].name \in DOMAIN plan.byExactName
        /\ plan.byExactName[plan.list[i].name] = i

\* C22: every plan typeFields has returned (the plans of the cache) has
\* its list sorted by effective name, ascending, and an exact-name map with
\* exactly one entry for each element of the list, pointing at it.
C22_PlanSortedByName ==
  \A t \in DOMAIN fieldCache :
     SortedByName(fieldCache[t].list) /\ OneEntryEach(fieldCache[t])

\* candidate c of t is alone with its name at its depth, and every other
\* candidate of that name lies deeper
Shadows(t, c) ==
  \A e \in Candidates(t, <<>>) :
     (e.name = c.name /\ e # c) => Len(e.index) > Len(c.index)

\* C23: depth shadowing.  When one candidate of a name lies at a depth and
\* every other candidate of that name lies deeper, the plan holds exactly
\* that candidate for the name, tagged or not and however many the deeper
\* ones are.
C23_DepthShadowing ==
  \A t \in DOMAIN fieldCache :
     \A c \in Candidates(t, <<>>) :
        Shadows(t, c) => {f \in PlanCandidates(fieldCache[t]) : f.name = c.name} = {c}

\* a plan is published for a type with an untagged field above two deeper
\* tagged fields of its name; the plan holds the untagged one
C23_UntaggedAboveTagged ==
  \E t \in DOMAIN fieldCache :
     \E c \in Candidates(t, <<>>) :
        /\ Shadows(t, c) /\ ~c.tagged
        /\ Cardinality({e \in Candidates(t, <<>>) :
                           e.name = c.name /\ e.tagged /\ Len(e.index) > Len(c.index)}) = 2
        /\ c \in PlanCandidates(fieldCache[t])

(* ------------------------------ the arena ------------------------------- *)
\* node n has children
HasChildren(n) == n.Type \in {SliceValueType, MapValueType} /\ n.Length > 0

\* the indices of the children of n
ChildRange(n) == n.First .. (n.First + n.Length - 1)

\* the nodes of list form a tree under index 0: every node with children
\* has them inside the list and after the root, no index is the child of
\* two nodes, and every index but 0 is a child
TreeShaped(list) ==
  LET parents == {i \in 0..(Len(list) - 1) : HasChildren(At(list, i))} IN
  /\ Len(list) >= 1
  /\ \A i \in parents : At(list, i).First >= 1
                         /\ At(list, i).First + At(list, i).Length <= Len(list)
  /\ \A i, j \in parents :
        i # j => ChildRange(At(list, i)) \cap ChildRange(At(list, j)) = {}
  /\ UNION {ChildRange(At(list, i)) : i \in parents} = 1..(Len(list) - 1)

\* node i of list stands for the value v, each child of a node at First
\* plus its position in v: element j of a slice or array, entry j of a map
\* with string keys under its key, field j of a struct's plan under its
\* name (a Null node when a nil pointer hides the field)
RECURSIVE SitsAt(_, _, _)
SitsAt(list, i, v) ==
  LET n == At(list, i)
      k == KindOf(v)
  IN
  CASE k \in {"iface", "ptr"} ->
         IF v.nil THEN n.Type = NilValueType ELSE SitsAt(list, i, v.elem)
    [] k \in ScalarKinds -> n.Type = ValueValueType /\ n.Value = v
    [] k \in {"array", "slice"} ->
         /\ n.Type = SliceValueType /\ n.Length = Len(v.elems)
         /\ \A j \in 1..Len(v.elems) : SitsAt(list, n.First + j - 1, v.elems[j])
    [] k = "map" ->
         /\ n.Type = MapValueType /\ n.Length = Len(v.ents)
         /\ \A j \in 1..Len(v.ents) :
               validMapKey(v.ents[j].key).valid =>
                  /\ At(list, n.First + j - 1).Name = v.ents[j].key.v
                  /\ SitsAt(list, n.First + j - 1, v.ents[j].val)
    [] k = "struct" ->
         LET plan == FieldPlan[v.t].list IN
         /\ n.Type = MapValueType /\ n.Length = Len(plan)
         /\ \A j \in 1..Len(plan) :
               /\ At(list, n.First + j - 1).Name = plan[j].name
               /\ IF ReadAt(v, plan[j].index).ok
                  THEN SitsAt(list, n.First + j - 1, ReadAt(v, plan[j].index).v)
                  ELSE At(list, n.First + j - 1).Type = NilValueType
    [] OTHER -> TRUE

\* C24: the arena tree.  Once a source value has been encoded, index 0 is
\* the root; every node with children has First >= 1 and First + Length
\* within the list; the child ranges of distinct nodes are disjoint and
\* cover exactly the indices after the root; and the whole range of a node
\* is reserved before its children are encoded, so child i of a node sits
\* at First + i, in the order of the source.
C24_ArenaTree ==
  \A p \in Callers :
     Encoded(p) => /\ TreeShaped(call[p].l.List)
                   /\ SitsAt(call[p].l.List, 0, call[p].src)

\* an arena holds a node with two children or more, one of which has
\* children of its own
C24_NestedRanges ==
  \E p \in Callers :
     /\ Encoded(p)
     /\ \E i, j \in 0..(Len(call[p].l.List) - 1) :
           /\ HasChildren(At(call[p].l.List, i)) /\ At(call[p].l.List, i).Length >= 2
           /\ j \in ChildRange(At(call[p].l.List, i))
           /\ HasChildren(At(call[p].l.List, j))

\* the slot holds neither a key nor a scalar
NoReference(n) == n.Name = "" /\ n.Value = Invalid

\* no slot of the arena's buffer, within its length or beyond, holds a key
\* or a scalar
Cleared(a) ==
  /\ \A i \in 1..Len(a.List) : NoReference(a.List[i])
  /\ \A i \in 1..Len(a.spare) : NoReference(a.spare[i])

\* the arena has been handed to call p, which has not encoded yet
Handed(p) == call[p].pc = "encode" /\ call[p].l # NoArena

\* C25: after Reset.  An arena handed to a conversion has exactly one
\* node, the empty root (Null, no key, no scalar, no children), and no
\* slot of its buffer, within the length or beyond, holds a key or a scalar
\* of the conversion before; nor does any slot of an arena that rests in
\* the pool.
C25_ResetLeavesNothing ==
  /\ \A p \in Callers :
        Handed(p) => call[p].l.List = <<ZeroMV>> /\ Cleared(call[p].l)
  /\ \A a \in pool : Cleared(a)

(* ---------------------------- list-like values -------------------------- *)
\* x is what a Scalar child of the element type t leaves in an element
FromChild(kid, t, x) == (kid.Type = ValueValueType /\ kid.Value.t = t) => x = kid.Value

\* the slice or array that held before holds after what the List node n
\* makes of it: a slice of as many elements as n has children, an array
\* with the children it has room for and zero values after them
ListInto(list, n, before, after) ==
  LET kids == Children(list, n)
      t == Types[before.t].elem
  IN IF KindOf(before) = "slice"
     THEN /\ ~after.nil /\ Len(after.elems) = Len(kids)
          /\ \A i \in 1..Len(kids) : FromChild(kids[i], t, after.elems[i])
     ELSE /\ Len(after.elems) = Len(before.elems)
          /\ \A i \in 1..Len(before.elems) :
                IF i <= Len(kids) THEN FromChild(kids[i], t, after.elems[i])
                ELSE after.elems[i] = Zero(t)

\* call p has returned after materializing a List root node into a
\* destination &d, d a slice or an array
ListIntoListLike(p) ==
  /\ Finished(p) /\ call[p].l # NoArena /\ call[p].l.List[1].Type = SliceValueType
  /\ KindOf(call[p].dest0) = "ptr" /\ ~call[p].dest0.nil
  /\ KindOf(call[p].dest0.elem) \in {"slice", "array"}

\* the children of p's root that are List nodes and whose field of the
\* destination struct is a slice or an array
ListFields(p) ==
  {c \in Matching(p) : /\ RootChildren(p)[c].Type = SliceValueType
                       /\ Kind(FieldOfChild(p, c).typ) \in {"slice", "array"}
                       /\ ReadAt(call[p].dest0.elem, FieldOfChild(p, c).index).ok}

\* C26: a List node into a list-like destination.  A slice is set to the
\* length of the node, element i from child i, whatever it held; an array
\* of length c gets the children 0..min(n,c)-1 at their positions, zero
\* values at the positions n..c-1, and the children from c on are dropped.
\* The same for a slice or array field of a struct destination.
C26_ListIntoListLike ==
  \A p \in Callers :
     /\ ListIntoListLike(p) =>
           /\ call[p].ret = "nil"
           /\ ListInto(call[p].l.List, call[p].l.List[1],
                       call[p].dest0.elem, call[p].dest.elem)
     /\ KeyedIntoStruct(p) =>
           \A c \in ListFields(p) :
              ListInto(call[p].l.List, RootChildren(p)[c],
                       FieldValue(call[p].dest0.elem, FieldOfChild(p, c)),
                       FieldValue(call[p].dest.elem, FieldOfChild(p, c)))

\* a List node of one child has been materialized into an array of two
\* elements that held no zero values: the first is the child's, the second
\* zero
C26_ZeroFilled ==
  \E p \in Callers :
     /\ ListIntoListLike(p) /\ call[p].l.List[1].Length = 1
     /\ KindOf(call[p].dest0.elem) = "array" /\ Len(call[p].dest0.elem.elems) = 2
     /\ call[p].dest0.elem.elems[2] # Zero("int")
     /\ call[p].dest.elem.elems[1] = RootChildren(p)[1].Value
     /\ call[p].dest.elem.elems[2] = Zero("int")

(* ------------------------ pointers on an access path -------------------- *)
\* the struct field the last step of the access path index selects,
\* starting at type t
RECURSIVE LastField(_, _)
LastField(t, index) ==
  LET s == IF Kind(t) = "ptr" THEN Types[t].elem ELSE t
  IN IF Len(index) = 1 THEN StructField(s, index[1])
     ELSE LastField(StructField(s, index[1]).typ, Tail(index))

\* the steps of the access path of child c's field after which a nil
\* pointer lies in v, and those of them where it cannot be set: it was
\* reached through an unexported field
NilSteps(p, c, v) ==
  {k \in 1..(Len(FieldOfChild(p, c).index) - 1) : NilAt(v, FieldOfChild(p, c).index, k)}
Unsettable(p, c, v) ==
  {k \in NilSteps(p, c, v) :
     ~LastField(v.t, SubSeq(FieldOfChild(p, c).index, 1, k)).exported}

\* call p has returned after materializing a Keyed root node into a
\* destination &d, d a struct
KeyedIntoStructDone(p) ==
  /\ Finished(p) /\ call[p].l # NoArena
  /\ call[p].l.List[1].Type = MapValueType /\ DestStruct(call[p])

\* C27: nil pointers on the way to a field.  When the access path of a
\* matching child's field crosses nil pointers that can all be set, each
\* is given a fresh value and the field is reached; when it crosses one
\* that cannot be set, nothing is assigned for that child (the pointer
\* stays nil), the call does not panic, and the children after it are
\* still assigned.
C27_NilOnAccessPath ==
  \A p \in Callers :
     KeyedIntoStructDone(p) =>
       \A c \in Matching(p) :
          /\ (/\ NilSteps(p, c, call[p].dest0.elem) # {}
              /\ Unsettable(p, c, call[p].dest0.elem) = {}
              /\ call[p].ret = "nil") =>
                ReadAt(call[p].dest.elem, FieldOfChild(p, c).index).ok
          /\ Unsettable(p, c, call[p].dest0.elem) # {} =>
                /\ call[p].ret = "nil"
                /\ Unsettable(p, c, call[p].dest.elem) = Unsettable(p, c, call[p].dest0.elem)
                /\ \A d \in ScalarFit(p) :
                      (d > c /\ NilSteps(p, d, call[p].dest0.elem) = {}) =>
                         FieldValue(call[p].dest.elem, FieldOfChild(p, d)) =
                            RootChildren(p)[d].Value

(* ------------------------- the placeholder encoder ---------------------- *)
\* the types whose encoder the encoding of call p invokes
Invoked(p) == ConversionOf[Args(call[p])].enc.seen

\* call p has every encoder it asked for and is about to run them, or is
\* waiting in the indirect func of one whose real encoder is not ready
Invoking(p) ==
  /\ call[p].pc = "encode" /\ stack[p] = <<>> /\ call[p].ri > Len(call[p].reqs)

\* caller q is inside typeEncoder(t), computing the real encoder
Computing(q, t) ==
  \E k \in 1..Len(stack[q]) :
     /\ stack[q][k].fn = "typeEncoder" /\ stack[q][k].t = t
     /\ stack[q][k].pc \in {"compute", "done", "store"}

\* C28: the placeholder.  An encoding runs an encoder only once the real
\* encoder of its type is ready, so an indirect func invoked earlier waits
\* for the computing caller, and the arena then holds what the real
\* encoders write for the source; under fair scheduling every caller that
\* invokes its encoders gets its encoding done; and the cache holds a
\* placeholder for a type only while its computing caller is inside
\* typeEncoder, and never again once it holds the real encoder.
C28_PlaceholderDelegates ==
  /\ [](\A p \in Callers :
          Encoded(p) => /\ \A t \in Invoked(p) :
                              t \in DOMAIN encoderCache /\ encoderCache[t].ready
                        /\ SitsAt(call[p].l.List, 0, call[p].src))
  /\ \A p \in Procs : Invoking(p) ~> Encoded(p)
  /\ [](\A t \in DOMAIN encoderCache :
          ~encoderCache[t].real => Computing(encoderCache[t].by, t))
  /\ [][\A t \in DOMAIN encoderCache :
          encoderCache[t].real => encoderCache'[t].real]_vars

\* a caller has its encoding done through the indirect func of a type
\* that the other caller computed and has not published yet
C28_ThroughPlaceholder ==
  \E p, q \in Callers :
     /\ p # q /\ Encoded(p)
     /\ \E t \in Invoked(p) :
           /\ encoderCache[t].by = q /\ encoderCache[t].ready /\ ~encoderCache[t].real


(* ------------------------------ makeValue ------------------------------ *)
\* the calls of makeValue in this behaviour
MakeValueCalls == {p \in Callers : call[p].pc \in {"loop", "return", "panic"}}

\* the destination is an interface variable that holds a pointer to itself
PointsBack(c) ==
  /\ c.heap0[1].t = "any" /\ c.heap0[1].dt = "*any" /\ c.heap0[1].ref = 1

\* the destination is an interface variable from which a chain of pointers
\* that it holds leads back to it
LeadsBack(c) ==
  /\ c.heap0[1].t = "any" /\ c.heap0[1].dt = "**any" /\ c.heap0[1].ref # 0
  /\ c.heap0[c.heap0[1].ref].ref = 1

\* makeValue has returned a location that is not a pointer
ReturnedNoPointer(c) == c.pc = "return" /\ KindIn(c.heap, c.v) # "ptr"

\* C29 (termination): makeValue returns for every destination
C29_Terminates == \A p \in {"p1"} : <>(call[p].pc = "return")

\* C29 (the rest): what makeValue returns is not a pointer, and an iteration
\* that passes a nil pointer variable points it to a fresh zero variable
\* of the pointed-to type and goes on from there
C29_AllocatesAndReturnsNoPointer ==
  /\ [](\A p \in MakeValueCalls : call[p].pc = "return" => ReturnedNoPointer(call[p]))
  /\ [][\A p \in MakeValueCalls :
          LET c == call[p]
              d == call'[p]
          IN (c.pc = "loop" /\ c.v.addr # 0 /\ KindIn(c.heap, c.v) = "ptr" /\ IsNilIn(c.heap, c.v))
             => /\ d.pc = "loop"
                /\ d.v = InVariable(Len(c.heap) + 1)
                /\ d.heap = Append([c.heap EXCEPT ![c.v.addr].ref = Len(c.heap) + 1],
                                   Variable(Types[c.heap[c.v.addr].t].elem, "", 0))]_vars

\* C29: makeValue terminates for every destination, an interface that holds
\* a pointer back to itself included, allocates a zero value at each nil
\* pointer it passes and returns a location that is not a pointer
C29_MakeValueTerminates == C29_Terminates /\ C29_AllocatesAndReturnsNoPointer

\* the destination that holds a pointer to itself: makeValue returns the
\* interface variable
C29_SelfPointer ==
  \E p \in MakeValueCalls :
     PointsBack(call[p]) /\ ReturnedNoPointer(call[p]) /\ call[p].v = InVariable(1)

\* the walk is back at the destination variable after leaving it
C29_BackAtDestination ==
  \E p \in MakeValueCalls :
     /\ LeadsBack(call[p]) /\ call[p].pc = "loop"
     /\ call[p].v = InVariable(call[p].heap0[1].ref)

(* --------------------------------- To ---------------------------------- *)
\* call p of To[T] has returned or panicked
ToReturned(p, T) ==
  call[p].pc = "returned" /\ call[p].fn \in {"To[time.Duration]", "To[time.Time]"}
  /\ call[p].fn = "To[" \o T \o "]"

\* C30: To[T] hands its options on: To[time.Duration](i, opts...) returns
\* what ToDurationE(i, opts...) returns and To[time.Time](i, opts...)
\* what ToTimeE(i, opts...) returns, for every input and all options.
C30_ToForwardsOptions ==
  \A p \in Callers :
    /\ ToReturned(p, "time.Duration") => call[p].out = ToDurationE(call[p].i, call[p].opts)
    /\ ToReturned(p, "time.Time") => call[p].out = ToTimeE(call[p].i, call[p].opts)

\* without options the two agree
C30_ToWithoutOptions ==
  \A p \in Callers :
    call[p].opts = <<>> =>
      /\ ToReturned(p, "time.Duration") => call[p].out = ToDurationE(call[p].i, <<>>)
      /\ ToReturned(p, "time.Time") => call[p].out = ToTimeE(call[p].i, <<>>)

====
